---- MODULE Spec2Model ----
(***************************************************************************)
(* Model of master_sync_fkie's SyncThread (sync_thread.py): one worker     *)
(* thread per remote ROS master that fetches the remote master's state,    *)
(* diffs it against the registrations it mirrored so far and applies the   *)
(* difference to the local ROS master, under congestion avoidance.         *)
(*                                                                         *)
(* Time is counted in ticks of 100 ms.  The two request times              *)
(* _ts_first_update_request and _ts_last_update_request are kept as ages   *)
(* (time.time() minus the stored value), which is the only way the code    *)
(* reads them (lines 225-226); ages saturate at the value the code         *)
(* compares them with.                                                     *)
(*                                                                         *)
(* The worker holds the lock of self.__cv from line 214 to the end of the  *)
(* with block, but for the time it is in wait(): through the sleeps of the *)
(* congestion avoidance, the fetch and the multicall.  The callers         *)
(* update(), setOwnMasterState() and stop() run under the same lock.       *)
(*                                                                         *)
(* Specifications:                                                         *)
(*   Spec        worker, callers, stop and shutdown over few remote states *)
(*   SpecPass    pass after pass over many remote states                   *)
(*   SpecFilter  passes under every choice of filter lists and local state *)
(*   SpecTimed   bursts of update() calls, time in single ticks            *)
(*   SpecFair    Spec's worker under weak fairness                         *)
(*   SpecRetry   failing passes and the retries, under fairness            *)
(*   SpecApply   multicalls with failed items and lost answers             *)
(*   SpecOwn     setOwnMasterState() and the passes it asks for            *)
(*   SpecInfo    getSyncInfo() between the steps of the worker             *)
(*   SpecSocket  the sessions of one process and the socket timeout        *)
(*   SpecTypes   remote states that differ in the type of a topic          *)
(*   SpecThird   remote states with nodes and services of a third master   *)
(*   SpecSame    update() calls that carry the timestamp the session holds *)
(*   SpecZero    remote states with a stamp of 0                           *)
(*   SpecPrime   multicalls answered with lists of the current publishers  *)
(*   SpecRound   master_info.py: a snapshot, its wire form and back        *)
(*   SpecLocal   master_info.py: the setters of a node and of a service    *)
(*   SpecHistory history.py: the cache of the values of the parameters     *)
(***************************************************************************)
EXTENDS Integers, Sequences, FiniteSets, TLC

VARIABLES
  pc,            \* position of the worker thread in run()
  do_wait,       \* local variable do_wait of run()
  cv_locked,     \* TRUE while the worker holds the lock of self.__cv
  stop_flag,     \* self.__stop
  shutdown,      \* rospy.is_shutdown()
  masterInfo,    \* self.masterInfo: timestamp, timestamp_local, lastsync, syncts
  own_state,     \* self.__own_state
  publisher,     \* self.__publisher
  subscriber,    \* self.__subscriber
  services,      \* self.__services
  sync_info,     \* self.__sync_info
  config,        \* the six compiled patterns of _loadInterface
  _ts_first_update_request,
  _ts_last_update_request,
  sleepLeft,     \* remaining ticks of the time.sleep() the worker is in
  caller,        \* the call of update/setOwnMasterState/stop in progress
  passResult,    \* outcome of the pass that has just ended, until line 211 is next read
  handler,       \* the list handler of that pass (the calls of the multicall)
  failedItems,   \* indices of handler the local master answered with a code /= 1
  prevMirrored,  \* the three mirrored lists before that pass
  priming,       \* what the loop of lines 330-350 did in that pass
  samePass,      \* that pass repeated the successful pass before it
  snapshot,      \* remote_state fetched by the last pass
  ownChanged,    \* self.__own_state was replaced since the last pass
  lastOk,        \* the last pass succeeded
  afterStop,     \* what the worker has done since a stop() returned
  registry,      \* registrations of this session the local master holds
  teardownCalls, \* the calls of the teardown multicall
  sinceFirstCall,\* ticks since the first update() call not yet followed by a fetch
  sinceLastCall, \* ticks since the last update() call
  stopReturned,  \* a stop() call has returned
  defaulttimeout,\* the default timeout of the socket module, one per process
  at,            \* where each session of the process is between lines 235 and 388
  rpc,           \* per session: the last RPC started and the timeout it started with
  minfo,         \* master_info.py: a MasterInfo object
  listed,        \* master_info.py: what minfo.listedState() returned
  restored,      \* master_info.py: what MasterInfo.from_list(listed) returned
  endpoint,      \* master_info.py: a NodeInfo or ServiceInfo object
  paramCache,    \* history.py: History.PARAM_CACHE
  paramRecent    \* history.py: per key the values added and not removed since, the last added first

vars == <<pc, do_wait, cv_locked, stop_flag, shutdown, masterInfo, own_state,
          publisher, subscriber, services, sync_info, config,
          _ts_first_update_request, _ts_last_update_request, sleepLeft,
          caller, passResult, handler, failedItems, prevMirrored, priming, samePass,
          snapshot, ownChanged, lastOk, afterStop, registry, teardownCalls, sinceFirstCall, sinceLastCall, stopReturned,
          defaulttimeout, at, rpc,
          minfo, listed, restored, endpoint, paramCache, paramRecent>>

None == "None"            \* None where a string is expected
NoObject == [none |-> TRUE] \* None where an object is expected
NoTime == -1              \* None where a time is expected
NoTimeout == NoTime       \* socket.setdefaulttimeout(None): calls block without limit

\* The sessions of one process: master_sync keeps one SyncThread per remote
\* master, each with a worker thread of its own and locks of its own; the
\* default timeout of the socket module is one value for the whole process.
Sessions == {"a", "b"}

NoRpc == [kind |-> "none", timeout |-> NoTimeout]

-----------------------------------------------------------------------------
(* Bounds and program constants                                            *)

MaxStamp == 2            \* stamps of remote and local states are 1..MaxStamp
MaxItemFailures == 1     \* items of one multicall answered with a code /= 1

FetchTimeout == 20        \* line 235, seconds
ApplyTimeout == 3         \* line 319, seconds
TeardownTimeout == 5      \* line 372, seconds
Ceiling == 50            \* 5 s    (line 225)
Quiet == 11              \* 1.1 s  (line 226)
RetryDelay == 30         \* time.sleep(3)  (line 213)
MaxRandomWait == 19      \* random.random() * 2 < 2 s  (line 227)

LocalMasterUri == "http://local:11311"     \* self.localMasteruri
RemoteMasterUri == "http://remote:11311"
ThirdMasterUri == "http://third:11311"

Min(a, b) == IF a < b THEN a ELSE b

SeqToSet(s) == {s[i] : i \in 1..Len(s)}

\* Python truth value of a string or None
Truthy(x) == x /= None /\ x /= ""

\* a list enumerating a Python set (the order of iteration is fixed here)
RECURSIVE SetToList(_)
SetToList(S) ==
  IF S = {} THEN <<>>
  ELSE LET x == CHOOSE y \in S : TRUE IN <<x>> \o SetToList(S \ {x})

-----------------------------------------------------------------------------
(* Pure helpers of SyncThread                                              *)

\* a compiled pattern is the set of names it matches
Match(pattern, name) == name \in pattern

RECURSIVE _getTopicType(_, _)
_getTopicType(topic, topicTypes) ==
  IF topicTypes = <<>> THEN None
  ELSE IF Head(topicTypes)[1] = topic THEN Head(topicTypes)[2]
  ELSE _getTopicType(topic, Tail(topicTypes))

\* lines 430-436 without the test of line 434
RECURSIVE _getNodeUri_NoOwnerTest(_, _, _)
_getNodeUri_NoOwnerTest(node, nodes, remote_masteruri) ==
  IF nodes = <<>> THEN None
  ELSE LET e == Head(nodes) IN
       IF e[1] = node /\ remote_masteruri = e[3]
       THEN e[2]
       ELSE _getNodeUri_NoOwnerTest(node, Tail(nodes), remote_masteruri)

\* lines 430-436 without the test remote_masteruri == masteruri of line 432
RECURSIVE _getNodeUri_AnyOwner(_, _, _)
_getNodeUri_AnyOwner(node, nodes, remote_masteruri) ==
  IF nodes = <<>> THEN None
  ELSE LET e == Head(nodes) IN
       IF e[1] = node /\ e[3] /= LocalMasterUri
       THEN e[2]
       ELSE _getNodeUri_AnyOwner(node, Tail(nodes), remote_masteruri)

RECURSIVE _getNodeUri(_, _, _)
_getNodeUri(node, nodes, remote_masteruri) ==
  IF nodes = <<>> THEN None
  ELSE LET e == Head(nodes) IN
       IF e[1] = node /\ remote_masteruri = e[3] /\ e[3] /= LocalMasterUri
       THEN e[2]
       ELSE _getNodeUri(node, Tail(nodes), remote_masteruri)

RECURSIVE _getServiceUri(_, _, _)
_getServiceUri(service, nodes, remote_masteruri) ==
  IF nodes = <<>> THEN None
  ELSE LET e == Head(nodes) IN
       IF e[1] = service /\ remote_masteruri = e[3] /\ e[3] /= LocalMasterUri
       THEN e[2]
       ELSE _getServiceUri(service, Tail(nodes), remote_masteruri)

\* MasterInfo.getTopic / getNode of the local state
getTopic(own, topic) == IF topic \in DOMAIN own.topics THEN own.topics[topic] ELSE NoObject
getNode(own, n) == IF n \in DOMAIN own.nodes THEN own.nodes[n] ELSE NoObject

\* the for loop of lines 405-408: some node of the topic is known and local
AnyLocal(own, nodes) ==
  \E i \in 1..Len(nodes) :
    LET n2 == getNode(own, nodes[i]) IN n2 /= NoObject /\ n2.isLocal

\* lines 390-411 with the sync lists read before the ignore lists
_doIgnoreNT_SyncFirst(node, topic, cfg, own) ==
  IF Match(cfg.sync_nodes, node) THEN FALSE
  ELSE IF Match(cfg.sync_topics, topic) THEN FALSE
  ELSE IF Match(cfg.ignore_nodes, node) THEN TRUE
  ELSE IF Match(cfg.ignore_topics, topic) THEN TRUE
  ELSE IF own /= NoObject
       THEN LET t == getTopic(own, topic) IN
            IF t /= NoObject /\ AnyLocal(own, t.subscriberNodes \o t.publisherNodes)
            THEN FALSE
            ELSE TRUE
  ELSE ~Match(cfg.sync_nodes, "node node") \/ ~Match(cfg.sync_topics, "topic topic")

_doIgnoreNT(node, topic, cfg, own) ==
  IF Match(cfg.ignore_nodes, node) THEN TRUE
  ELSE IF Match(cfg.ignore_topics, topic) THEN TRUE
  ELSE IF Match(cfg.sync_nodes, node) THEN FALSE
  ELSE IF Match(cfg.sync_topics, topic) THEN FALSE
  ELSE IF own /= NoObject
       THEN LET t == getTopic(own, topic) IN
            IF t /= NoObject /\ AnyLocal(own, t.subscriberNodes \o t.publisherNodes)
            THEN FALSE
            ELSE TRUE
  ELSE ~Match(cfg.sync_nodes, "node node") \/ ~Match(cfg.sync_topics, "topic topic")

\* lines 413-422 with line 422 returning False
_doIgnoreNS_SyncByDefault(node, service, cfg) ==
  IF Match(cfg.ignore_nodes, node) THEN TRUE
  ELSE IF Match(cfg.ignore_services, service) THEN TRUE
  ELSE FALSE

_doIgnoreNS(node, service, cfg) ==
  IF Match(cfg.ignore_nodes, node) THEN TRUE
  ELSE IF Match(cfg.ignore_services, service) THEN TRUE
  ELSE IF Match(cfg.sync_nodes, node) THEN FALSE
  ELSE IF Match(cfg.sync_services, service) THEN FALSE
  ELSE ~Match(cfg.sync_nodes, "node node") \/ ~Match(cfg.sync_services, "service service")

-----------------------------------------------------------------------------
(* The reconciliation of one pass (run(), lines 252-314)                   *)

\* the (name, node) pairs of the nested loops "for (topic, nodes) in
\* publishers: for node in nodes"
RECURSIVE Pairs(_)
Pairs(l) ==
  IF l = <<>> THEN <<>>
  ELSE [i \in 1..Len(Head(l)[2]) |-> <<Head(l)[1], Head(l)[2][i]>>] \o Pairs(Tail(l))

\* lines 256-264 / 277-285: the accepted (topic, topictype, node, nodeuri)
RECURSIVE TopicItems(_, _, _, _)
TopicItems(pairs, snap, cfg, own) ==
  IF pairs = <<>> THEN <<>>
  ELSE LET topic == Head(pairs)[1]
           node == Head(pairs)[2]
           topictype == _getTopicType(topic, snap.topicTypes)
           nodeuri == _getNodeUri(node, snap.nodeProviders, snap.masteruri)
           rest == TopicItems(Tail(pairs), snap, cfg, own)
       IN IF Truthy(topictype) /\ Truthy(nodeuri) /\ ~_doIgnoreNT(node, topic, cfg, own)
          THEN <<<<topic, topictype, node, nodeuri>>>> \o rest
          ELSE rest

\* lines 298-306: the accepted (service, serviceuri, node, nodeuri)
RECURSIVE ServiceItems(_, _, _)
ServiceItems(pairs, snap, cfg) ==
  IF pairs = <<>> THEN <<>>
  ELSE LET service == Head(pairs)[1]
           node == Head(pairs)[2]
           serviceuri == _getServiceUri(service, snap.serviceProviders, snap.masteruri)
           nodeuri == _getNodeUri(node, snap.nodeProviders, snap.masteruri)
           rest == ServiceItems(Tail(pairs), snap, cfg)
       IN IF Truthy(serviceuri) /\ Truthy(nodeuri) /\ ~_doIgnoreNS(node, service, cfg)
          THEN <<<<service, serviceuri, node, nodeuri>>>> \o rest
          ELSE rest

\* (topic, node, nodeuri) of an accepted item: what is appended to publisher
TopicKey(x) == <<x[1], x[3], x[4]>>

\* the list publisher / subscriber of the pass
DesiredTopics(pairs, snap, cfg, own) ==
  LET items == TopicItems(pairs, snap, cfg, own)
  IN [i \in 1..Len(items) |-> TopicKey(items[i])]

\* lines 262-263 without the test of line 262
ToRegister_Always(items, mirrored) == items

\* publisher_to_register (lines 262-263): the accepted items not in the mirrored list
ToRegister(items, mirrored) ==
  SelectSeq(items, LAMBDA x : TopicKey(x) \notin SeqToSet(mirrored))

\* lines 304-305 without the test of line 304
ServicesToRegister_Always(items, mirrored) == items

\* services_to_register (lines 304-305)
ServicesToRegister(items, mirrored) ==
  SelectSeq(items, LAMBDA x : x \notin SeqToSet(mirrored))

\* lines 266-268 with the difference taken the other way round
ToUnregister_Swapped(mirrored, desired) ==
  SetToList(SeqToSet(desired) \ SeqToSet(mirrored))

\* lines 266-268 with the items compared by the name of the topic or service
ToUnregister_ByName(mirrored, desired) ==
  SetToList({x \in SeqToSet(mirrored) : \A y \in SeqToSet(desired) : y[1] /= x[1]})

\* lines 266-268: the items of the mirrored list the pass no longer wants
ToUnregister(mirrored, desired) ==
  SetToList(SeqToSet(mirrored) \ SeqToSet(desired))

Calls(kind, items) == [i \in 1..Len(items) |-> [kind |-> kind, item |-> items[i]]]

\* the list handler after line 314, in the order the calls are added to the multicall
Handler(snap, cfg, own, pubs, subs, srvs) ==
  LET pitems == TopicItems(Pairs(snap.publishers), snap, cfg, own)
      sitems == TopicItems(Pairs(snap.subscribers), snap, cfg, own)
      vitems == ServiceItems(Pairs(snap.rservices), snap, cfg)
      pdes == DesiredTopics(Pairs(snap.publishers), snap, cfg, own)
      sdes == DesiredTopics(Pairs(snap.subscribers), snap, cfg, own)
  IN    Calls("upub", ToUnregister(pubs, pdes))
     \o Calls("pub", ToRegister(pitems, pubs))
     \o Calls("usub", ToUnregister(subs, sdes))
     \o Calls("sub", ToRegister(sitems, subs))
     \o Calls("usrv", ToUnregister(srvs, vitems))
     \o Calls("srv", ServicesToRegister(vitems, srvs))

IsRegister(h) == h.kind \in {"pub", "sub", "srv"}
IsUnregister(h) == h.kind \in {"upub", "usub", "usrv"}

\* the registration a call is about, as the local master keys it
RegKey(h) ==
  CASE h.kind = "pub" -> <<"pub", TopicKey(h.item)>>
    [] h.kind = "sub" -> <<"sub", TopicKey(h.item)>>
    [] h.kind = "srv" -> <<"srv", h.item>>
    [] h.kind = "upub" -> <<"pub", h.item>>
    [] h.kind = "usub" -> <<"sub", h.item>>
    [] h.kind = "usrv" -> <<"srv", h.item>>

\* the local master after executing the calls of a multicall in order; the
\* calls whose index is in failed are answered with a code other than 1
RECURSIVE ApplyCalls(_, _, _, _)
ApplyCalls(reg, calls, failed, i) ==
  IF i > Len(calls) THEN reg
  ELSE LET h == calls[i]
           r == IF i \in failed THEN reg
                ELSE IF IsRegister(h) THEN reg \cup {RegKey(h)}
                ELSE reg \ {RegKey(h)}
       IN ApplyCalls(r, calls, failed, i + 1)

-----------------------------------------------------------------------------
(* Inputs: remote states, local states, filter lists                       *)

Stamps == 1..MaxStamp

\* remote_state of line 237, the fields run() reads (lines 238-247)
RemoteState(stamp, stamp_local, masteruri, pubs, subs, srvs, types, nodes, sprov) ==
  [stamp |-> stamp, stamp_local |-> stamp_local, masteruri |-> masteruri,
   publishers |-> pubs, subscribers |-> subs, rservices |-> srvs,
   topicTypes |-> types, nodeProviders |-> nodes, serviceProviders |-> sprov]

NodeTables ==
  { << <<"/lidar", "http://h1:1", RemoteMasterUri>>, <<"/cam", "http://h1:2", RemoteMasterUri>> >>,
    << <<"/lidar", "http://h1:9", RemoteMasterUri>>, <<"/cam", "http://h3:2", ThirdMasterUri>> >>,
    << <<"/lidar", "http://h0:1", LocalMasterUri>>, <<"/cam", "http://h1:2", RemoteMasterUri>> >> }

ServiceTables ==
  { << <<"/lidar/set_parameters", "rosrpc://h1:5", RemoteMasterUri>> >>,
    << <<"/lidar/set_parameters", "rosrpc://h0:5", LocalMasterUri>> >> }

PublisherLists ==
  { <<>>, << <<"/scan", <<"/lidar">>>> >>, << <<"/scan", <<"/lidar", "/cam">>>> >> }

SubscriberLists == { <<>>, << <<"/scan", <<"/cam">>>> >> }

ServiceLists == { <<>>, << <<"/lidar/set_parameters", <<"/lidar">>>> >> }

TypeTables == { << <<"/scan", "sensor/Scan">> >> }

RemoteStates(stamps, masteruris, pubs, subs, srvs, types, nodes, sprovs) ==
  { RemoteState(st, st, m, p, q, v, t, n, sp) :
      st \in stamps, m \in masteruris, p \in pubs, q \in subs, v \in srvs,
      t \in types, n \in nodes, sp \in sprovs }

\* the state of the local master handed to setOwnMasterState: its
\* timestamp_local, its topics and its nodes (MasterInfo.getTopic, getNode)
LocalState(ts, topics, nodes) == [timestamp_local |-> ts, topics |-> topics, nodes |-> nodes]

TopicInfo(pubs, subs) == [publisherNodes |-> pubs, subscriberNodes |-> subs]
NodeInfo(isLocal) == [isLocal |-> isLocal]

LocalTopicTables ==
  { <<>>,
    [t \in {"/scan"} |-> TopicInfo(<<>>, <<"/view">>)] }

LocalNodeTables ==
  { [n \in {"/view"} |-> NodeInfo(TRUE)],
    [n \in {"/view"} |-> NodeInfo(FALSE)] }

LocalStates(stamps, topics, nodes) ==
  { LocalState(ts, t, n) : ts \in stamps, t \in topics, n \in nodes }

OwnStates ==
  LocalStates(Stamps, {[t \in {"/scan"} |-> TopicInfo(<<>>, <<"/view">>)]},
              {[n \in {"/view"} |-> NodeInfo(TRUE)]})

\* What common.create_pattern compiles a list of names to: the set of the
\* names the pattern matches.  An empty list compiles to the pattern \b,
\* which matches no name starting with "/" and matches the probes of lines
\* 411 and 422; the entry "*" matches every name.
EMPTY_PATTERN == {"node node", "topic topic", "service service"}

Names == {"/lidar", "/cam", "/view", "/scan", "/lidar/set_parameters"}

create_pattern(list) ==
  IF list = {} THEN EMPTY_PATTERN
  ELSE IF "*" \in list THEN Names \cup EMPTY_PATTERN
  ELSE list

\* the six patterns of _loadInterface (lines 449-455)
Patterns(in, sn, it, st, is, ss) ==
  [ignore_nodes |-> create_pattern(in), sync_nodes |-> create_pattern(sn),
   ignore_topics |-> create_pattern(it), sync_topics |-> create_pattern(st),
   ignore_services |-> create_pattern(is), sync_services |-> create_pattern(ss)]

\* no interface file and no parameters: the default lists of lines 449-455
DefaultPatterns == Patterns({"/rosout"}, {}, {"/rosout", "/rosout_agg"}, {}, {}, {})

-----------------------------------------------------------------------------
(* State                                                                   *)

Unset == -1    \* masterInfo.timestamp_local before line 357 has run

NoCall == [op |-> "none"]

InitWith(configs) ==
  /\ pc = "loop"
  /\ do_wait = FALSE
  /\ cv_locked = FALSE
  /\ stop_flag = FALSE
  /\ shutdown = FALSE
  /\ masterInfo = [timestamp |-> 1, timestamp_local |-> Unset, lastsync |-> 0, syncts |-> 0]
  /\ own_state = NoObject
  /\ publisher = <<>>
  /\ subscriber = <<>>
  /\ services = <<>>
  /\ sync_info = NoObject
  /\ priming = [lists |-> {}, raised |-> {}, made |-> {}, left |-> {}]
  /\ defaulttimeout = NoTimeout
  /\ at = [s \in Sessions |-> "idle"]
  /\ rpc = [s \in Sessions |-> NoRpc]
  /\ config \in configs
  /\ _ts_first_update_request = NoTime
  /\ _ts_last_update_request = NoTime
  /\ sleepLeft = 0
  /\ caller = NoCall
  /\ handler = <<>>
  /\ passResult = "none"
  /\ failedItems = {}
  /\ snapshot = NoObject
  /\ ownChanged = FALSE
  /\ prevMirrored = [pub |-> <<>>, sub |-> <<>>, srv |-> <<>>]
  /\ samePass = FALSE
  /\ lastOk = FALSE
  /\ afterStop = {}
  /\ registry = {}
  /\ teardownCalls = <<>>
  /\ sinceFirstCall = NoTime
  /\ sinceLastCall = NoTime
  /\ stopReturned = FALSE

workerVars == <<pc, do_wait, cv_locked, sleepLeft>>
socketVars == <<defaulttimeout, at, rpc>>
sessionVars == <<masterInfo, publisher, subscriber, services, sync_info>>
reportVars == <<passResult, handler, failedItems, prevMirrored, priming, samePass>>
passVars == <<reportVars, snapshot, lastOk, afterStop, registry>>
requestVars == <<_ts_first_update_request, _ts_last_update_request>>
callVars == <<caller, sinceFirstCall, sinceLastCall, stopReturned>>
libVars == <<minfo, listed, restored, endpoint, paramCache, paramRecent>>
syncVars == <<workerVars, socketVars, sessionVars, passVars, requestVars, callVars,
              stop_flag, shutdown, own_state, ownChanged, config, teardownCalls>>

\* no object of master_info.py or history.py has been made
NoLibrary ==
  /\ minfo = NoObject
  /\ listed = NoObject
  /\ restored = NoObject
  /\ endpoint = NoObject
  /\ paramCache = NoObject
  /\ paramRecent = NoObject

-----------------------------------------------------------------------------
(* The worker thread: run()                                                *)

\* no publisher was made to prime a subscriber
NoPriming == [lists |-> {}, raised |-> {}, made |-> {}, left |-> {}]

\* no pass has just ended
NoReport ==
  /\ passResult' = "none"
  /\ priming' = NoPriming
  /\ handler' = <<>>
  /\ failedItems' = {}
  /\ prevMirrored' = [pub |-> <<>>, sub |-> <<>>, srv |-> <<>>]
  /\ samePass' = FALSE

\* line 211 with a pass that failed ending the loop
LoopHead_ErrorEndsLoop ==
  /\ pc = "loop"
  /\ IF stop_flag \/ shutdown \/ do_wait
       THEN pc' = "teardown" /\ sleepLeft' = 0
       ELSE IF do_wait
              THEN pc' = "sleep3" /\ sleepLeft' = RetryDelay
              ELSE pc' = "acquire" /\ sleepLeft' = 0
  /\ NoReport
  /\ UNCHANGED <<do_wait, cv_locked, stop_flag, shutdown, own_state, config, socketVars, libVars,
                 teardownCalls>>
  /\ UNCHANGED <<sessionVars, requestVars, callVars>>
  /\ UNCHANGED <<snapshot, ownChanged, lastOk, afterStop, registry>>

\* line 211, and line 212 when the loop goes on
LoopHead ==
  /\ pc = "loop"
  /\ IF stop_flag \/ shutdown
       THEN pc' = "teardown" /\ sleepLeft' = 0
       ELSE IF do_wait
              THEN pc' = "sleep3" /\ sleepLeft' = RetryDelay
              ELSE pc' = "acquire" /\ sleepLeft' = 0
  /\ NoReport
  /\ UNCHANGED <<do_wait, cv_locked, stop_flag, shutdown, own_state, config, socketVars, libVars,
                 teardownCalls>>
  /\ UNCHANGED <<sessionVars, requestVars, callVars>>
  /\ UNCHANGED <<snapshot, ownChanged, lastOk, afterStop, registry>>

\* line 213: time.sleep(3) is over
RetryWake ==
  /\ pc = "sleep3"
  /\ sleepLeft = 0
  /\ pc' = "acquire"
  /\ UNCHANGED <<do_wait, cv_locked, sleepLeft, stop_flag, shutdown, own_state, config, socketVars, libVars,
                 teardownCalls, ownChanged>>
  /\ UNCHANGED <<sessionVars, passVars, requestVars, callVars>>

\* lines 214-218 without the test of line 217
Acquire_AlwaysWaits ==
  /\ pc = "acquire"
  /\ ~cv_locked
  /\ pc' = "waiting" /\ cv_locked' = FALSE
  /\ UNCHANGED <<do_wait, sleepLeft, stop_flag, shutdown, own_state, config, socketVars, libVars,
                 teardownCalls, ownChanged>>
  /\ UNCHANGED <<sessionVars, passVars, requestVars, callVars>>

\* lines 214-218: take the lock of the condition; wait() gives it back
Acquire ==
  /\ pc = "acquire"
  /\ ~cv_locked
  /\ IF masterInfo.syncts /= 0 /\ masterInfo.lastsync /= 0
       THEN pc' = "waiting" /\ cv_locked' = FALSE
       ELSE pc' = "notified" /\ cv_locked' = TRUE
  /\ UNCHANGED <<do_wait, sleepLeft, stop_flag, shutdown, own_state, config, socketVars, libVars,
                 teardownCalls, ownChanged>>
  /\ UNCHANGED <<sessionVars, passVars, requestVars, callVars>>

\* line 218: wait() returns after a notify(), with the lock taken again
Reacquire ==
  /\ pc = "woken"
  /\ ~cv_locked
  /\ pc' = "notified"
  /\ cv_locked' = TRUE
  /\ UNCHANGED <<do_wait, sleepLeft, stop_flag, shutdown, own_state, config, socketVars, libVars,
                 teardownCalls, ownChanged>>
  /\ UNCHANGED <<sessionVars, passVars, requestVars, callVars>>

\* what the worker does is noted once a stop() has returned
Since(done) == afterStop' = IF stopReturned THEN afterStop \cup done ELSE afterStop

Kinds(calls) == {calls[i].kind : i \in 1..Len(calls)}

\* the condition of the while loop of lines 225-226
Congested ==
  /\ _ts_first_update_request /= NoTime
  /\ _ts_first_update_request < Ceiling
  /\ _ts_last_update_request < Quiet

\* lines 223-231: sleep for one of the random waits, or go on to the fetch
\* of line 237; the fetch ends the count of the calls it serves
CongestionAvoidance(waits) ==
  IF Congested
    THEN /\ \E wait \in waits : sleepLeft' = wait
         /\ pc' = "congestion"
         /\ UNCHANGED sinceFirstCall
    ELSE /\ sleepLeft' = 0
         /\ pc' = "fetch"
         /\ sinceFirstCall' = NoTime

\* lines 219-231 without the test of line 220
Notified_NoStopTest(waits) ==
  /\ pc = "notified"
  /\ CongestionAvoidance(waits)
  /\ Since(IF pc' = "fetch" THEN {"fetch"} ELSE {})
  /\ UNCHANGED cv_locked
  /\ UNCHANGED <<do_wait, stop_flag, shutdown, own_state, config, socketVars, libVars, teardownCalls>>
  /\ UNCHANGED <<sessionVars, requestVars, caller, sinceLastCall, stopReturned>>
  /\ UNCHANGED <<reportVars, snapshot, ownChanged, lastOk, registry>>

\* lines 219-231: after the wait, with the lock held
Notified(waits) ==
  /\ pc = "notified"
  /\ IF stop_flag
       THEN /\ pc' = "loop"
            /\ cv_locked' = FALSE
            /\ UNCHANGED <<sleepLeft, sinceFirstCall, afterStop>>
       ELSE /\ CongestionAvoidance(waits)
            /\ Since(IF pc' = "fetch" THEN {"fetch"} ELSE {})
            /\ UNCHANGED cv_locked
  /\ UNCHANGED <<do_wait, stop_flag, shutdown, own_state, config, socketVars, libVars, teardownCalls>>
  /\ UNCHANGED <<sessionVars, requestVars, caller, sinceLastCall, stopReturned>>
  /\ UNCHANGED <<reportVars, snapshot, ownChanged, lastOk, registry>>

\* lines 229-230: time.sleep(wait) is over, the while condition is read again
CongestionWake(waits) ==
  /\ pc = "congestion"
  /\ sleepLeft = 0
  /\ CongestionAvoidance(waits)
  /\ Since(IF pc' = "fetch" THEN {"fetch"} ELSE {})
  /\ UNCHANGED <<do_wait, cv_locked, stop_flag, shutdown, own_state, config, socketVars, libVars, teardownCalls>>
  /\ UNCHANGED <<sessionVars, requestVars, caller, sinceLastCall, stopReturned>>
  /\ UNCHANGED <<reportVars, snapshot, ownChanged, lastOk, registry>>

\* the sets of items of a multicall the local master may answer with a code /= 1
FailedSets(calls) ==
  {F \in SUBSET (1..Len(calls)) : Cardinality(F) <= MaxItemFailures}

Mirrored == [pub |-> publisher, sub |-> subscriber, srv |-> services]

\* lines 317-318 without line 318
InvalidateSyncInfo_Never == UNCHANGED sync_info

\* line 318, under self.__lock_info
InvalidateSyncInfo == sync_info' = NoObject

\* lines 364-368 and the end of the with block: the pass failed
\* lines 364-368: the fetch or the multicall raised
PassFailed(result, calls) ==
  /\ masterInfo' = [masterInfo EXCEPT !.syncts = 0]
  /\ do_wait' = TRUE
  /\ cv_locked' = FALSE
  /\ pc' = "loop"
  /\ handler' = calls
  /\ passResult' = result
  /\ prevMirrored' = Mirrored
  /\ ownChanged' = FALSE
  /\ samePass' = FALSE
  /\ lastOk' = FALSE
  /\ Since(Kinds(calls))
  /\ UNCHANGED <<publisher, subscriber, services, requestVars>>
  /\ IF result = "fetch" THEN UNCHANGED sync_info ELSE InvalidateSyncInfo

\* lines 233-247 raise, and the except branch unregisters the publishers
FetchFails_Unregisters ==
  /\ pc = "fetch"
  /\ PassFailed("fetch", Calls("upub", publisher))
  /\ registry' = ApplyCalls(registry, Calls("upub", publisher), {}, 1)
  /\ snapshot' = NoObject
  /\ failedItems' = {}
  /\ priming' = NoPriming
  /\ UNCHANGED <<sleepLeft, stop_flag, shutdown, own_state, config, socketVars, libVars,
                 teardownCalls>>
  /\ UNCHANGED callVars

\* lines 233-247 raise: the remote monitor does not answer, or its answer has
\* not the ten fields or no numeric stamp
FetchFails ==
  /\ pc = "fetch"
  /\ PassFailed("fetch", <<>>)
  /\ snapshot' = NoObject
  /\ failedItems' = {}
  /\ priming' = NoPriming
  /\ UNCHANGED <<registry, sleepLeft, stop_flag, shutdown, own_state, config, socketVars, libVars,
                 teardownCalls>>
  /\ UNCHANGED callVars

\* lines 351-363 without line 360
PassSucceeded_KeepsFirstRequest(snap, calls) ==
  /\ publisher' = DesiredTopics(Pairs(snap.publishers), snap, config, own_state)
  /\ subscriber' = DesiredTopics(Pairs(snap.subscribers), snap, config, own_state)
  /\ services' = ServiceItems(Pairs(snap.rservices), snap, config)
  /\ InvalidateSyncInfo
  /\ masterInfo' = [timestamp |-> snap.stamp, timestamp_local |-> snap.stamp_local,
                    lastsync |-> snap.stamp, syncts |-> snap.stamp]
  /\ UNCHANGED <<_ts_first_update_request, _ts_last_update_request>>
  /\ do_wait' = FALSE
  /\ cv_locked' = FALSE
  /\ pc' = "loop"
  /\ handler' = calls
  /\ passResult' = "ok"
  /\ prevMirrored' = Mirrored
  /\ ownChanged' = FALSE
  /\ samePass' = (lastOk /\ snapshot = snap /\ ~ownChanged)
  /\ lastOk' = TRUE
  /\ Since(Kinds(calls))

\* lines 351-363: the pass succeeded
PassSucceeded(snap, calls) ==
  /\ publisher' = DesiredTopics(Pairs(snap.publishers), snap, config, own_state)
  /\ subscriber' = DesiredTopics(Pairs(snap.subscribers), snap, config, own_state)
  /\ services' = ServiceItems(Pairs(snap.rservices), snap, config)
  /\ InvalidateSyncInfo
  /\ masterInfo' = [timestamp |-> snap.stamp, timestamp_local |-> snap.stamp_local,
                    lastsync |-> snap.stamp, syncts |-> snap.stamp]
  /\ _ts_first_update_request' = NoTime
  /\ UNCHANGED _ts_last_update_request
  /\ do_wait' = FALSE
  /\ cv_locked' = FALSE
  /\ pc' = "loop"
  /\ handler' = calls
  /\ passResult' = "ok"
  /\ prevMirrored' = Mirrored
  /\ ownChanged' = FALSE
  /\ samePass' = (lastOk /\ snapshot = snap /\ ~ownChanged)
  /\ lastOk' = TRUE
  /\ Since(Kinds(calls))

\* What becomes of a multicall: "none": every item is answered with code 1;
\* "item": some items are answered with another code; "lost": the call
\* raises and the local master has executed nothing; "answer_lost": the
\* call raises (timeout) and the local master has executed the calls.
Faults == {"none", "item", "lost", "answer_lost"}

FailedChoices(fault, calls) ==
  IF fault = "item" THEN FailedSets(calls) \ {{}} ELSE {{}}

Executed(fault, calls, failed) ==
  IF fault = "lost" THEN registry ELSE ApplyCalls(registry, calls, failed, 1)

\* line 332 without the test code == 1
Primes_AnyCode(calls, failed, lists) ==
  {i \in 1..Len(calls) : calls[i].kind = "sub" /\ i \in lists}

\* line 332: the items of the answer for which a publisher is made; lists are
\* the items answered with a list r that is not empty
Primes(calls, failed, lists) ==
  {i \in 1..Len(calls) : calls[i].kind = "sub" /\ i \notin failed /\ i \in lists}

\* lines 330-350: for the items of raised, get_message_class or
\* rospy.Publisher raises and the except branch of line 348 logs it; for the
\* others the publisher is made (line 333) and unregistered (line 334)
Priming(calls, failed, lists, raised) ==
  LET made == Primes(calls, failed, lists) \ raised
      unregistered == made
  IN [lists |-> lists, raised |-> raised, made |-> made, left |-> made \ unregistered]

\* the answers of the local master: with or without lists of the current
\* publishers and subscribers of the topics
AnswerLists(answers, calls) == IF answers THEN SUBSET (1..Len(calls)) ELSE {{}}

\* lines 237-363 with the answer snap of the remote monitor: the calls are
\* put together, the multicall is sent (line 320), its answer is read and
\* the subscribers are primed
SyncPrimed(snaps, faults, answers) ==
  /\ pc = "fetch"
  /\ \E snap \in snaps, fault \in faults :
       LET calls == Handler(snap, config, own_state, publisher, subscriber, services)
       IN \E failed \in FailedChoices(fault, calls) :
            /\ snapshot' = snap
            /\ failedItems' = failed
            /\ registry' = Executed(fault, calls, failed)
            /\ IF fault \in {"none", "item"}
                 THEN /\ PassSucceeded(snap, calls)
                      /\ \E lists \in AnswerLists(answers, calls) :
                           \E raised \in SUBSET Primes(calls, failed, lists) :
                             priming' = Priming(calls, failed, lists, raised)
                 ELSE /\ PassFailed(fault, calls)
                      /\ priming' = NoPriming
  /\ UNCHANGED <<sleepLeft, stop_flag, shutdown, own_state, config, socketVars, libVars, teardownCalls>>
  /\ UNCHANGED callVars

\* a pass in which the local master answers no register call with a list
Sync(snaps, faults) == SyncPrimed(snaps, faults, FALSE)

\* the teardown without the loop of lines 380-381
TeardownCalls_NoServices(pubs, subs, srvs) ==
  Calls("upub", pubs) \o Calls("usub", subs)

\* lines 376-381: the calls of the teardown multicall
TeardownCalls(pubs, subs, srvs) ==
  Calls("upub", pubs) \o Calls("usub", subs) \o Calls("usrv", srvs)

\* lines 370-388: the multicall of the teardown is executed by the local
\* master, or it raises and the error is logged
Teardown(faults) ==
  /\ pc = "teardown"
  /\ LET calls == TeardownCalls(publisher, subscriber, services)
     IN /\ teardownCalls' = calls
        /\ \E fault \in faults : \E failed \in FailedChoices(fault, calls) :
             registry' = Executed(fault, calls, failed)
  /\ pc' = "done"
  /\ Since({"teardown"})
  /\ UNCHANGED <<do_wait, cv_locked, sleepLeft, stop_flag, shutdown, own_state, config, socketVars, libVars>>
  /\ UNCHANGED <<sessionVars, requestVars, callVars>>
  /\ UNCHANGED <<reportVars, snapshot, ownChanged, lastOk>>

-----------------------------------------------------------------------------
(* The callers: update(), setOwnMasterState(), stop()                      *)
(*                                                                         *)
(* Each of them runs with the lock of self.__cv.  A call that finds the    *)
(* lock free runs at once; a call made while the worker holds the lock     *)
(* blocks at its with statement and runs when the worker has released it.  *)

\* str() of a stamp: Python 2 prints a float with 12 significant digits, so
\* that stamps next to each other print the same
Str(x) == x \div 2

\* self.__cv.notify(): wakes the worker if it waits
Notify == pc' = IF pc = "waiting" THEN "woken" ELSE pc

\* lines 168-170 and 188-190
RecordRequest ==
  /\ _ts_last_update_request' = 0
  /\ _ts_first_update_request' =
       IF _ts_first_update_request = NoTime THEN 0 ELSE _ts_first_update_request

\* lines 158-171 without line 166
UpdateBody_NoReset(timestamp) ==
  /\ IF masterInfo.timestamp_local /= Unset
        /\ Str(masterInfo.timestamp_local) /= Str(timestamp)
       THEN /\ UNCHANGED masterInfo
            /\ RecordRequest
            /\ Notify
       ELSE UNCHANGED <<masterInfo, requestVars, pc>>
  /\ UNCHANGED <<own_state, ownChanged, stop_flag, stopReturned>>

\* lines 158-171 with line 166 storing the timestamp of the request
UpdateBody_StoresStamp(timestamp) ==
  /\ IF masterInfo.timestamp_local /= Unset
        /\ Str(masterInfo.timestamp_local) /= Str(timestamp)
       THEN /\ masterInfo' = [masterInfo EXCEPT !.syncts = timestamp]
            /\ RecordRequest
            /\ Notify
       ELSE UNCHANGED <<masterInfo, requestVars, pc>>
  /\ UNCHANGED <<own_state, ownChanged, stop_flag, stopReturned>>

\* lines 158-171 without the test of line 160
UpdateBody_NoCompare(timestamp) ==
  /\ IF masterInfo.timestamp_local /= Unset
       THEN /\ masterInfo' = [masterInfo EXCEPT !.syncts = 0]
            /\ RecordRequest
            /\ Notify
       ELSE UNCHANGED <<masterInfo, requestVars, pc>>
  /\ UNCHANGED <<own_state, ownChanged, stop_flag, stopReturned>>

\* lines 158-171.  Before the first successful pass masterInfo has no
\* attribute timestamp_local and line 160 raises.
UpdateBody(timestamp) ==
  /\ IF masterInfo.timestamp_local /= Unset
        /\ Str(masterInfo.timestamp_local) /= Str(timestamp)
       THEN /\ masterInfo' = [masterInfo EXCEPT !.syncts = 0]
            /\ RecordRequest
            /\ Notify
       ELSE UNCHANGED <<masterInfo, requestVars, pc>>
  /\ UNCHANGED <<own_state, ownChanged, stop_flag, stopReturned>>

\* lines 181-191 without lines 186-190
SetOwnMasterStateBody_OnlyStores(state) ==
  /\ IF own_state = NoObject \/ own_state.timestamp_local /= state.timestamp_local
       THEN /\ own_state' = state
            /\ ownChanged' = TRUE
            /\ UNCHANGED <<masterInfo, requestVars, pc>>
       ELSE UNCHANGED <<own_state, ownChanged, masterInfo, requestVars, pc>>
  /\ UNCHANGED <<stop_flag, stopReturned>>

\* lines 181-191
SetOwnMasterStateBody(state) ==
  /\ IF own_state = NoObject \/ own_state.timestamp_local /= state.timestamp_local
       THEN /\ own_state' = state
            /\ ownChanged' = TRUE
            /\ masterInfo' = [masterInfo EXCEPT !.syncts = 0]
            /\ RecordRequest
            /\ Notify
       ELSE UNCHANGED <<own_state, ownChanged, masterInfo, requestVars, pc>>
  /\ UNCHANGED <<stop_flag, stopReturned>>

\* lines 199-202
StopBody ==
  /\ stop_flag' = TRUE
  /\ Notify
  /\ stopReturned' = TRUE
  /\ UNCHANGED <<own_state, ownChanged, masterInfo, requestVars>>

Body(call) ==
  CASE call.op = "update" -> UpdateBody(call.timestamp)
    [] call.op = "setOwnMasterState" -> SetOwnMasterStateBody(call.own_state)
    [] call.op = "stop" -> StopBody

\* a call whose body runs without the lock of lines 158, 181 and 199
Enter_WithoutLock(call) ==
  /\ pc /= "done"
  /\ caller = NoCall
  /\ caller' = NoCall
  /\ Body(call)
  /\ UNCHANGED <<do_wait, cv_locked, sleepLeft, shutdown, config, socketVars, libVars, teardownCalls,
                 publisher, subscriber, services, sync_info>>
  /\ UNCHANGED passVars

\* a call is made while the thread lives: it runs, or it blocks while the
\* worker holds the lock
Enter(call) ==
  /\ pc /= "done"
  /\ caller = NoCall
  /\ IF cv_locked
       THEN /\ caller' = call
            /\ UNCHANGED <<pc, own_state, ownChanged, masterInfo, requestVars, stop_flag,
                           stopReturned>>
       ELSE /\ caller' = NoCall
            /\ Body(call)
  /\ UNCHANGED <<do_wait, cv_locked, sleepLeft, shutdown, config, socketVars, libVars, teardownCalls,
                 publisher, subscriber, services, sync_info>>
  /\ UNCHANGED passVars

\* the call asks for a pass: line 160 does not raise and finds another timestamp
IsRequest(timestamp) ==
  /\ masterInfo.timestamp_local /= Unset
  /\ Str(masterInfo.timestamp_local) /= Str(timestamp)

\* update(name, uri, discoverer_name, monitoruri, timestamp) is called; the
\* time of a call that asks for a pass is noted from start on (start is 0, or
\* NoTime not to note it)
Update(stamps, start) ==
  \E ts \in stamps :
    /\ Enter([op |-> "update", timestamp |-> ts])
    /\ IF start /= NoTime /\ IsRequest(ts)
         THEN /\ sinceLastCall' = start
              /\ sinceFirstCall' = IF sinceFirstCall = NoTime THEN start ELSE sinceFirstCall
         ELSE UNCHANGED <<sinceFirstCall, sinceLastCall>>

\* setOwnMasterState(own_state) is called
SetOwnMasterState(states) ==
  /\ \E o \in states : Enter([op |-> "setOwnMasterState", own_state |-> o])
  /\ UNCHANGED <<sinceFirstCall, sinceLastCall>>

\* stop() is called
Stop ==
  /\ Enter([op |-> "stop"])
  /\ UNCHANGED <<sinceFirstCall, sinceLastCall>>

\* the worker has released the lock and the blocked call runs
Resume ==
  /\ caller /= NoCall
  /\ ~cv_locked
  /\ Body(caller)
  /\ caller' = NoCall
  /\ UNCHANGED <<do_wait, cv_locked, sleepLeft, shutdown, config, socketVars, libVars, teardownCalls,
                 publisher, subscriber, services, sync_info, sinceFirstCall,
                 sinceLastCall>>
  /\ UNCHANGED passVars

\* lines 126-139: the message built from the three lists (the name of the
\* master left out)
SyncMasterInfo(pubs, subs, srvs) ==
  [nodes |-> {x[2] : x \in SeqToSet(pubs)} \cup {x[2] : x \in SeqToSet(subs)}
               \cup {x[3] : x \in SeqToSet(srvs)},
   publisher |-> pubs,
   subscriber |-> subs,
   services |-> {x[1] : x \in SeqToSet(srvs)}]

\* getSyncInfo(), lines 123-140: under self.__lock_info, which the worker
\* holds from line 317 to line 361; what is returned is sync_info'
GetSyncInfo ==
  /\ sync_info' = IF sync_info = NoObject
                    THEN SyncMasterInfo(publisher, subscriber, services)
                    ELSE sync_info
  /\ UNCHANGED <<workerVars, stop_flag, shutdown, own_state, ownChanged, config,
                 socketVars, libVars,
                 teardownCalls>>
  /\ UNCHANGED <<masterInfo, publisher, subscriber, services, passVars, requestVars,
                 callVars>>

\* an RPC takes the default timeout at the time its connection is made
Started(s, kind) == rpc' = [rpc EXCEPT ![s] = [kind |-> kind, timeout |-> defaulttimeout]]

SessionStep(s, from, to) ==
  /\ at[s] = from
  /\ at' = [at EXCEPT ![s] = to]
  /\ UNCHANGED <<workerVars, stop_flag, shutdown, own_state, ownChanged, config,
                 libVars, teardownCalls>>
  /\ UNCHANGED <<sessionVars, passVars, requestVars, callVars>>

\* line 235
SetFetchTimeout(s) ==
  /\ SessionStep(s, "idle", "fetch")
  /\ defaulttimeout' = FetchTimeout
  /\ UNCHANGED rpc

\* lines 236-237: the call of the remote monitor is started; it answers, or
\* it raises and the except branch of lines 364-368 ends the pass
StartFetch(s) ==
  /\ \E to \in {"apply", "idle"} : SessionStep(s, "fetch", to)
  /\ Started(s, "fetch")
  /\ UNCHANGED defaulttimeout

\* line 319
SetApplyTimeout(s) ==
  /\ SessionStep(s, "apply", "multicall")
  /\ defaulttimeout' = ApplyTimeout
  /\ UNCHANGED rpc

\* line 320: the multicall to the local master is started; it answers, or it
\* raises and the except branch of lines 364-368 ends the pass
StartMulticall(s) ==
  /\ \E to \in {"reset", "idle"} : SessionStep(s, "multicall", to)
  /\ Started(s, "multicall")
  /\ UNCHANGED defaulttimeout

\* line 362
ResetTimeout(s) ==
  /\ SessionStep(s, "reset", "idle")
  /\ defaulttimeout' = NoTimeout
  /\ UNCHANGED rpc

\* line 372, after the loop has ended
SetTeardownTimeout(s) ==
  /\ SessionStep(s, "idle", "teardown")
  /\ defaulttimeout' = TeardownTimeout
  /\ UNCHANGED rpc

\* line 381
StartTeardown(s) ==
  /\ SessionStep(s, "teardown", "end")
  /\ Started(s, "teardown")
  /\ UNCHANGED defaulttimeout

\* line 388
ResetAtEnd(s) ==
  /\ SessionStep(s, "end", "done")
  /\ defaulttimeout' = NoTimeout
  /\ UNCHANGED rpc

\* rospy.is_shutdown() becomes true
Shutdown ==
  /\ pc /= "done"
  /\ ~shutdown
  /\ shutdown' = TRUE
  /\ UNCHANGED <<workerVars, stop_flag, own_state, ownChanged, config, socketVars, libVars, teardownCalls>>
  /\ UNCHANGED <<sessionVars, passVars, requestVars, callVars>>

-----------------------------------------------------------------------------
(* Time                                                                    *)

Sleeping == pc \in {"sleep3", "congestion"} /\ sleepLeft > 0

\* the worker is in a sleep, or at one of the places where it waits for
\* others (wait() of line 218, the remote call of line 237), and no call
\* stands before a free lock
TimePasses(places) ==
  /\ Sleeping \/ pc \in places
  /\ caller = NoCall \/ cv_locked

Age(x, d, cap) == IF x = NoTime THEN NoTime ELSE Min(x + d, cap)

\* d ticks pass, and not more than the worker sleeps
Advance(steps, places) ==
  /\ TimePasses(places)
  /\ \E d \in steps :
       LET e == IF Sleeping THEN Min(d, sleepLeft) ELSE d
       IN /\ sleepLeft' = IF Sleeping THEN sleepLeft - e ELSE sleepLeft
          /\ _ts_first_update_request' = Age(_ts_first_update_request, e, Ceiling)
          /\ _ts_last_update_request' = Age(_ts_last_update_request, e, Quiet)
          /\ sinceFirstCall' = Age(sinceFirstCall, e, Ceiling + 1)
          /\ sinceLastCall' = Age(sinceLastCall, e, Quiet)
  /\ UNCHANGED <<pc, do_wait, cv_locked, stop_flag, shutdown, own_state, config, socketVars, libVars,
                 teardownCalls, caller, stopReturned, ownChanged>>
  /\ UNCHANGED <<sessionVars, passVars>>

-----------------------------------------------------------------------------
(* Specifications                                                          *)

\* Spec: the worker, its callers and the shutdown, over few remote states
Waits == {0, MaxRandomWait}
Steps == {Ceiling + 1}
Places == {"waiting", "fetch"}

Nothing == <<<<>>, <<>>, <<>>>>
Everything ==
  << << <<"/scan", <<"/lidar">>>> >>, << <<"/scan", <<"/cam">>>> >>,
     << <<"/lidar/set_parameters", <<"/lidar">>>> >> >>

Snapshots ==
  { RemoteState(st, st, RemoteMasterUri, x[1], x[2], x[3],
                << <<"/scan", "sensor/Scan">> >>,
                << <<"/lidar", "http://h1:1", RemoteMasterUri>>,
                   <<"/cam", "http://h1:2", RemoteMasterUri>> >>,
                << <<"/lidar/set_parameters", "rosrpc://h1:5", RemoteMasterUri>> >>) :
      st \in Stamps, x \in {Nothing, Everything} }

Init == InitWith({DefaultPatterns}) /\ NoLibrary

Next ==
  \/ LoopHead
  \/ RetryWake
  \/ Acquire
  \/ Reacquire
  \/ Notified(Waits)
  \/ CongestionWake(Waits)
  \/ FetchFails
  \/ Sync(Snapshots, {"none", "lost"})
  \/ Teardown({"none", "lost"})
  \/ Update(Stamps, NoTime)
  \/ SetOwnMasterState(OwnStates)
  \/ Stop
  \/ Resume
  \/ Shutdown
  \/ Advance(Steps, Places)

Spec == Init /\ [][Next]_vars

\* SpecPass: pass after pass over every remote state of RemoteStates
PassWaits == {MaxRandomWait}

LocalNodeOwnerTables == {n \in NodeTables : \E i \in 1..Len(n) : n[i][3] = LocalMasterUri}
LocalServiceOwnerTables == {n \in ServiceTables : \E i \in 1..Len(n) : n[i][3] = LocalMasterUri}

\* every choice of lists and tables the remote master may report, and what a
\* master with the URI of the local master reports of nodes of its own
PassSnapshots ==
  RemoteStates({1}, {RemoteMasterUri}, PublisherLists, SubscriberLists,
               ServiceLists, TypeTables, NodeTables, ServiceTables)
  \cup
  RemoteStates({1}, {LocalMasterUri}, {Everything[1]}, {Everything[2]}, {Everything[3]},
               TypeTables, LocalNodeOwnerTables, LocalServiceOwnerTables)

\* a local master that has no topic of the remote master
PassOwnStates == LocalStates({1}, {<<>>}, {[n \in {"/view"} |-> NodeInfo(TRUE)]})

NextPass ==
  \/ LoopHead
  \/ RetryWake
  \/ Acquire
  \/ Reacquire
  \/ Notified(PassWaits)
  \/ CongestionWake(PassWaits)
  \/ FetchFails
  \/ Sync(PassSnapshots, {"none"})
  \/ Update({MaxStamp}, NoTime)
  \/ SetOwnMasterState(PassOwnStates)
  \/ Resume
  \/ Advance(Steps, Places)

SpecPass == Init /\ [][NextPass]_vars

\* SpecFilter: passes under every choice of the six lists and of the local state
FilterConfigs ==
  { Patterns(in, sn, it, st, is, ss) :
      in \in {{}, {"/cam"}}, sn \in {{}, {"/cam"}},
      it \in {{}, {"/scan"}}, st \in {{}, {"/scan"}},
      is \in {{}, {"/lidar/set_parameters"}}, ss \in {{}, {"/lidar/set_parameters"}} }

FilterOwnStates == LocalStates(Stamps, LocalTopicTables, LocalNodeTables)

AllOfIt ==
  << << <<"/scan", <<"/lidar", "/cam">>>> >>, << <<"/scan", <<"/cam">>>> >>,
     << <<"/lidar/set_parameters", <<"/lidar">>>> >> >>

FilterSnapshots ==
  { RemoteState(1, 1, RemoteMasterUri, x[1], x[2], x[3],
                << <<"/scan", "sensor/Scan">> >>,
                << <<"/lidar", "http://h1:1", RemoteMasterUri>>,
                   <<"/cam", "http://h1:2", RemoteMasterUri>> >>,
                << <<"/lidar/set_parameters", "rosrpc://h1:5", RemoteMasterUri>> >>) :
      x \in {Nothing, AllOfIt} }

InitFilter == InitWith(FilterConfigs) /\ NoLibrary

NextFilter ==
  \/ LoopHead
  \/ Acquire
  \/ Reacquire
  \/ Notified(PassWaits)
  \/ CongestionWake(PassWaits)
  \/ Sync(FilterSnapshots, {"none"})
  \/ SetOwnMasterState(FilterOwnStates)
  \/ Resume
  \/ Advance(Steps, Places)

SpecFilter == InitFilter /\ [][NextFilter]_vars

\* SpecTimed: time in ticks; update() is called in bursts, each call not more
\* than BurstGap after the one before; the remote monitor answers at once
BurstGap == 2

TimedWaits == 0..MaxRandomWait

TimedSnapshots ==
  { RemoteState(1, 1, RemoteMasterUri, Everything[1], Everything[2], Everything[3],
                << <<"/scan", "sensor/Scan">> >>,
                << <<"/lidar", "http://h1:1", RemoteMasterUri>>,
                   <<"/cam", "http://h1:2", RemoteMasterUri>> >>,
                << <<"/lidar/set_parameters", "rosrpc://h1:5", RemoteMasterUri>> >>) }

BurstUpdate(stamps) ==
  /\ sinceFirstCall = NoTime \/ sinceLastCall <= BurstGap
  /\ Update(stamps, 0)

NextTimed ==
  \/ LoopHead
  \/ RetryWake
  \/ Acquire
  \/ Reacquire
  \/ Notified(TimedWaits)
  \/ CongestionWake(TimedWaits)
  \/ FetchFails
  \/ Sync(TimedSnapshots, {"none"})
  \/ BurstUpdate({MaxStamp})
  \/ Resume
  \/ Advance({1}, {"waiting"})

SpecTimed == Init /\ [][NextTimed]_vars

\* SpecFair: the worker is scheduled whenever it can take a step, its remote
\* calls return, time goes on and a call that stands before the free lock
\* gets it; nothing is assumed of when update() and stop() are called
Worker ==
  \/ LoopHead
  \/ RetryWake
  \/ Acquire
  \/ Reacquire
  \/ Notified(PassWaits)
  \/ CongestionWake(PassWaits)
  \/ FetchFails
  \/ Sync(TimedSnapshots, {"none"})
  \/ Teardown({"none"})

NextFair ==
  \/ Worker
  \/ Update(Stamps, NoTime)
  \/ Stop
  \/ Resume
  \/ Advance(Steps, Places)

SpecFair ==
  /\ Init
  /\ [][NextFair]_vars
  /\ WF_vars(Worker)
  /\ WF_vars(Resume)
  /\ WF_vars(Advance(Steps, Places))

\* SpecRetry: passes that fail, by the fetch or by the multicall, and the
\* worker that tries again.  The remote master and the local master answer in
\* the end: a worker that comes to the fetch again and again gets its answers
\* once (strong fairness of the pass that succeeds).
Succeeds == Sync(TimedSnapshots, {"none"})

NextRetry ==
  \/ LoopHead
  \/ RetryWake
  \/ Acquire
  \/ Reacquire
  \/ Notified(PassWaits)
  \/ CongestionWake(PassWaits)
  \/ FetchFails
  \/ Sync(TimedSnapshots, {"none", "lost"})
  \/ Teardown({"none"})
  \/ Update(Stamps, NoTime)
  \/ SetOwnMasterState(PassOwnStates)
  \/ Stop
  \/ Resume
  \/ Shutdown
  \/ Advance(Steps, Places)

SpecRetry ==
  /\ Init
  /\ [][NextRetry]_vars
  /\ WF_vars(LoopHead \/ RetryWake \/ Acquire \/ Reacquire)
  /\ WF_vars(Notified(PassWaits) \/ CongestionWake(PassWaits))
  /\ WF_vars(Resume)
  /\ WF_vars(Advance(Steps, Places))
  /\ SF_vars(Succeeds)

\* SpecOwn: the local state is replaced again and again while the worker
\* runs, under the fairness of SpecFair
NextOwn ==
  \/ Worker
  \/ SetOwnMasterState(FilterOwnStates)
  \/ Stop
  \/ Resume
  \/ Advance(Steps, Places)

SpecOwn ==
  /\ Init
  /\ [][NextOwn]_vars
  /\ WF_vars(Worker)
  /\ WF_vars(Resume)
  /\ WF_vars(Advance(Steps, Places))

\* SpecInfo: getSyncInfo() called at any time while the worker runs
NextInfo ==
  \/ LoopHead
  \/ RetryWake
  \/ Acquire
  \/ Reacquire
  \/ Notified(PassWaits)
  \/ CongestionWake(PassWaits)
  \/ FetchFails
  \/ Sync(Snapshots, {"none", "lost"})
  \/ Teardown({"none"})
  \/ Update(Stamps, NoTime)
  \/ Stop
  \/ Resume
  \/ Advance(Steps, Places)
  \/ GetSyncInfo

SpecInfo == Init /\ [][NextInfo]_vars

\* SpecSocket: the workers of the sessions of one process, each between the
\* setting of the timeout for its fetch and the resetting after its multicall
\* or its teardown
NextSocket ==
  \E s \in Sessions :
    \/ SetFetchTimeout(s)
    \/ StartFetch(s)
    \/ SetApplyTimeout(s)
    \/ StartMulticall(s)
    \/ ResetTimeout(s)
    \/ SetTeardownTimeout(s)
    \/ StartTeardown(s)
    \/ ResetAtEnd(s)

SpecSocket == Init /\ [][NextSocket]_vars

\* SpecTypes: the remote master lists the same publishers, subscribers and
\* services in every state, and the topic under one of two types
TopicTypeNames == {"sensor/Scan", "sensor/Cloud"}

TypeSnapshots ==
  { RemoteState(1, 1, RemoteMasterUri, Everything[1], Everything[2], Everything[3],
                << <<"/scan", t>> >>,
                << <<"/lidar", "http://h1:1", RemoteMasterUri>>,
                   <<"/cam", "http://h1:2", RemoteMasterUri>> >>,
                << <<"/lidar/set_parameters", "rosrpc://h1:5", RemoteMasterUri>> >>) :
      t \in TopicTypeNames }

NextTypes ==
  \/ LoopHead
  \/ Acquire
  \/ Reacquire
  \/ Notified(PassWaits)
  \/ CongestionWake(PassWaits)
  \/ Sync(TypeSnapshots, {"none"})
  \/ Teardown({"none"})
  \/ Update(Stamps, NoTime)
  \/ Stop
  \/ Resume
  \/ Advance(Steps, Places)

SpecTypes == Init /\ [][NextTypes]_vars

\* SpecThird: the remote master lists nodes and services that it has itself
\* from a third master
ThirdNodeTables ==
  NodeTables \cup
  { << <<"/lidar", "http://h3:1", ThirdMasterUri>>, <<"/cam", "http://h1:2", RemoteMasterUri>> >> }

ThirdServiceTables ==
  ServiceTables \cup { << <<"/lidar/set_parameters", "rosrpc://h3:5", ThirdMasterUri>> >> }

ThirdSnapshots ==
  RemoteStates({1}, {RemoteMasterUri}, {AllOfIt[1]}, {AllOfIt[2]}, {AllOfIt[3]},
               TypeTables, ThirdNodeTables, ThirdServiceTables)

NextThird ==
  \/ LoopHead
  \/ Acquire
  \/ Reacquire
  \/ Notified(PassWaits)
  \/ CongestionWake(PassWaits)
  \/ Sync(ThirdSnapshots, {"none"})
  \/ Teardown({"none"})
  \/ Update(Stamps, NoTime)
  \/ Stop
  \/ Resume
  \/ Advance(Steps, Places)

SpecThird == Init /\ [][NextThird]_vars

\* SpecSame: the remote master changes its state (stamp) through what it
\* mirrors itself, its own part (stamp_local) stays as it is; update() is
\* called with the timestamp_local the session has stored
SameSnapshots ==
  { RemoteState(st, 1, RemoteMasterUri, x[1], x[2], x[3],
                << <<"/scan", "sensor/Scan">> >>,
                << <<"/lidar", "http://h1:1", RemoteMasterUri>>,
                   <<"/cam", "http://h1:2", RemoteMasterUri>> >>,
                << <<"/lidar/set_parameters", "rosrpc://h1:5", RemoteMasterUri>> >>) :
      st \in Stamps, x \in {Nothing, Everything} }

UpdateSame ==
  /\ masterInfo.timestamp_local /= Unset
  /\ Update({masterInfo.timestamp_local}, NoTime)

NextSame ==
  \/ LoopHead
  \/ RetryWake
  \/ Acquire
  \/ Reacquire
  \/ Notified(PassWaits)
  \/ FetchFails
  \/ Sync(SameSnapshots, {"none"})
  \/ Teardown({"none"})
  \/ UpdateSame
  \/ Stop
  \/ Resume
  \/ Advance(Steps, Places)

SpecSame == Init /\ [][NextSame]_vars

\* SpecZero: the remote monitor answers with a stamp of 0.0 or of 1
ZeroSnapshots ==
  { RemoteState(st, st, RemoteMasterUri, Everything[1], Everything[2], Everything[3],
                << <<"/scan", "sensor/Scan">> >>,
                << <<"/lidar", "http://h1:1", RemoteMasterUri>>,
                   <<"/cam", "http://h1:2", RemoteMasterUri>> >>,
                << <<"/lidar/set_parameters", "rosrpc://h1:5", RemoteMasterUri>> >>) :
      st \in {0, 1} }

NextZero ==
  \/ LoopHead
  \/ Acquire
  \/ Reacquire
  \/ Notified(PassWaits)
  \/ CongestionWake(PassWaits)
  \/ Sync(ZeroSnapshots, {"none"})
  \/ Teardown({"none"})
  \/ Update(Stamps, NoTime)
  \/ Stop
  \/ Resume
  \/ Advance(Steps, Places)

SpecZero == Init /\ [][NextZero]_vars

\* SpecPrime: the local master answers the register calls with or without
\* a list of the current publishers, and with a code of 1 or not; the priming
\* of a subscriber goes well or raises
NextPrime ==
  \/ LoopHead
  \/ Acquire
  \/ Reacquire
  \/ Notified(PassWaits)
  \/ CongestionWake(PassWaits)
  \/ SyncPrimed(Snapshots, {"none", "item"}, TRUE)
  \/ Teardown({"none"})
  \/ Update(Stamps, NoTime)
  \/ Stop
  \/ Resume
  \/ Advance(Steps, Places)
  \/ GetSyncInfo

SpecPrime == Init /\ [][NextPrime]_vars

(* master_info.py: the objects a snapshot is made of, its wire form        *)
(* (listedState), the snapshot made from a wire form (from_list) and the   *)
(* comparison of two snapshots (__eq__)                                    *)

StrNone == "'None'"       \* the string str(None) returns
NoPid == -1               \* pid = None
EmptyString == ""

NodeNames == {"/a", "/b"}
InfoTopicNames == {"/t", "/u"}
InfoServiceNames == {"/s"}
SameHostMasterUri == "http://remote:11312"     \* a second master on the host of the first
MasterUris == {RemoteMasterUri, ThirdMasterUri, SameHostMasterUri}
EndpointUris == {"http://remote:40001", "http://third:40001", "rosrpc://remote:50001",
                 "rosrpc://third:50001", "remote:40001", None}

\* urlparse(uri).hostname: None for a string without '//' before the host
hostname(uri) ==
  CASE uri \in {"http://remote:11311", "http://remote:11312", "http://remote:40001",
                "rosrpc://remote:50001"} -> "remote"
    [] uri \in {"http://third:11311", "http://third:40001", "rosrpc://third:50001"} -> "third"
    [] uri = "http://local:11311" -> "local"
    [] OTHER -> None

\* str() of a string or of None
str(x) == IF x = None THEN StrNone ELSE x

\* lines 208-221: urlparse(None) raises and the except of line 219 leaves False
local_(masteruri, org_masteruri, uri) ==
  IF masteruri = None \/ uri = None
    THEN FALSE
    ELSE hostname(masteruri) = hostname(uri) /\ masteruri = org_masteruri

\* lines 42-61
NewNodeInfo(name, masteruri) ==
  [name |-> name, __masteruri |-> masteruri, __org_masteruri |-> masteruri,
   __uri |-> None, pid |-> NoPid, __local |-> FALSE,
   _publishedTopics |-> <<>>, _subscribedTopics |-> <<>>, _services |-> <<>>]

\* lines 228-238
NewTopicInfo(name) ==
  [name |-> name, type |-> None, _publisherNodes |-> <<>>, _subscriberNodes |-> <<>>]

\* lines 316-335
NewServiceInfo(name, masteruri) ==
  [name |-> name, __masteruri |-> masteruri, __org_masteruri |-> masteruri,
   __uri |-> None, __local |-> FALSE, type |-> None, __serviceProvider |-> <<>>]

\* lines 486-506
NewMasterInfo(masteruri, mastername) ==
  [__masteruri |-> masteruri,
   __mastername |-> IF mastername = None THEN hostname(masteruri) ELSE mastername,
   __nodelist |-> <<>>, __topiclist |-> <<>>, __servicelist |-> <<>>,
   __timestamp |-> 0, check_ts |-> 0]

\* the setters uri of lines 79-85 and 353-362
uri_setter(self, uri) ==
  [self EXCEPT !.__uri = uri,
               !.__local = local_(self.__masteruri, self.__org_masteruri, uri)]

\* a setter masteruri that leaves the flag as it was
masteruri_setter_Stale(self, uri) == [self EXCEPT !.__org_masteruri = uri]

\* the setters masteruri of lines 95-101 and 372-381
masteruri_setter(self, uri) ==
  [self EXCEPT !.__org_masteruri = uri,
               !.__local = local_(self.__masteruri, uri, self.__uri)]

\* the list setters (lines 126-133 and alike) given a name: index() finds it,
\* or raises ValueError and the name is appended
Appended(list, name) == IF name \in SeqToSet(list) THEN list ELSE Append(list, name)

NoName(name) == name = None \/ name = EmptyString

\* lines 613-624
nodes_setter(self, name) ==
  IF NoName(name) \/ name \in DOMAIN self.__nodelist
    THEN self
    ELSE [self EXCEPT !.__nodelist = @ @@ (name :> NewNodeInfo(name, self.__masteruri))]

\* lines 654-665
topics_setter(self, name) ==
  IF NoName(name) \/ name \in DOMAIN self.__topiclist
    THEN self
    ELSE [self EXCEPT !.__topiclist = @ @@ (name :> NewTopicInfo(name))]

\* lines 683-694
services_setter(self, name) ==
  IF NoName(name) \/ name \in DOMAIN self.__servicelist
    THEN self
    ELSE [self EXCEPT !.__servicelist = @ @@ (name :> NewServiceInfo(name, self.__masteruri))]

\* lines 595-603
timestamp_setter(self, ts) == [self EXCEPT !.__timestamp = ts, !.check_ts = ts]

\* the orders a dictionary with the keys S may be iterated in
Orders(S) == {o \in [1..Cardinality(S) -> S] : SeqToSet(o) = S}

Mapped(list, Op(_)) == [i \in 1..Len(list) |-> Op(list[i])]

\* lines 806-868, the three dictionaries iterated in the given orders
listedState(self, topicOrder, serviceOrder, nodeOrder) ==
  LET topic(name) == self.__topiclist[name]
      service(name) == self.__servicelist[name]
      node(name) == self.__nodelist[name]
      publishers == Mapped(SelectSeq(topicOrder, LAMBDA name : topic(name)._publisherNodes /= <<>>),
                           LAMBDA name : <<name, topic(name)._publisherNodes>>)
      subscribers == Mapped(SelectSeq(topicOrder, LAMBDA name : topic(name)._subscriberNodes /= <<>>),
                            LAMBDA name : <<name, topic(name)._subscriberNodes>>)
      topicTypes == Mapped(topicOrder, LAMBDA name : <<name, topic(name).type>>)
      provided == Mapped(serviceOrder, LAMBDA name : <<name, service(name).__serviceProvider>>)
      serviceProvider ==
        Mapped(serviceOrder, LAMBDA name :
          <<name, service(name).__uri, str(service(name).__org_masteruri),
            IF service(name).type /= None THEN service(name).type ELSE EmptyString,
            IF service(name).__local THEN "local" ELSE "remote">>)
      nodes ==
        Mapped(nodeOrder, LAMBDA name :
          <<name, node(name).__uri, str(node(name).__org_masteruri), node(name).pid,
            IF node(name).__local THEN "local" ELSE "remote">>)
  IN <<Str(self.__timestamp), self.__masteruri, self.__mastername, publishers, subscribers,
       provided, topicTypes, nodes, serviceProvider>>

\* lines 532-535, 539-542 and 546-549: one round of the inner loops
Registered(result, kind, item, n) ==
  LET r == nodes_setter(result, n)
  IN CASE kind = "pub" ->
            [r EXCEPT !.__nodelist[n]._publishedTopics = Appended(@, item),
                      !.__topiclist[item]._publisherNodes = Appended(@, n)]
       [] kind = "sub" ->
            [r EXCEPT !.__nodelist[n]._subscribedTopics = Appended(@, item),
                      !.__topiclist[item]._subscriberNodes = Appended(@, n)]
       [] kind = "srv" ->
            [r EXCEPT !.__nodelist[n]._services = Appended(@, item),
                      !.__servicelist[item].__serviceProvider = Appended(@, n)]

RECURSIVE RegisteredAll(_, _, _, _)
RegisteredAll(result, kind, item, nodelist) ==
  IF nodelist = <<>>
    THEN result
    ELSE RegisteredAll(Registered(result, kind, item, Head(nodelist)), kind, item,
                       Tail(nodelist))

\* lines 530-549: the three outer loops
RECURSIVE Listed(_, _, _)
Listed(result, kind, list) ==
  IF list = <<>>
    THEN result
    ELSE LET item == Head(list)[1]
             r == IF kind = "srv" THEN services_setter(result, item)
                                  ELSE topics_setter(result, item)
         IN Listed(RegisteredAll(r, kind, item, Head(list)[2]), kind, Tail(list))

\* from_list without the loop of lines 551-553
Typed_Skipped(result, topicTypes) == result

\* lines 551-553
RECURSIVE Typed(_, _)
Typed(result, topicTypes) ==
  IF topicTypes = <<>>
    THEN result
    ELSE LET topic == Head(topicTypes)[1]
             r == topics_setter(result, topic)
         IN Typed([r EXCEPT !.__topiclist[topic].type = Head(topicTypes)[2]],
                  Tail(topicTypes))

\* lines 555-559
RECURSIVE NodeInformed(_, _)
NodeInformed(result, nodes) ==
  IF nodes = <<>>
    THEN result
    ELSE LET e == Head(nodes)
             r == nodes_setter(result, e[1])
             node == [masteruri_setter(uri_setter(r.__nodelist[e[1]], e[2]), e[3])
                        EXCEPT !.pid = e[4]]
         IN NodeInformed([r EXCEPT !.__nodelist[e[1]] = node], Tail(nodes))

\* lines 561-565
RECURSIVE ServiceInformed(_, _)
ServiceInformed(result, serviceProvider) ==
  IF serviceProvider = <<>>
    THEN result
    ELSE LET e == Head(serviceProvider)
             r == services_setter(result, e[1])
             service == [masteruri_setter(uri_setter(r.__servicelist[e[1]], e[2]), e[3])
                           EXCEPT !.type = e[4]]
         IN ServiceInformed([r EXCEPT !.__servicelist[e[1]] = service],
                            Tail(serviceProvider))

\* lines 509-566; l[0] of the code is l[1] here, now is time.time() of line 522
from_list(l, now) ==
  LET created == timestamp_setter(NewMasterInfo(l[2], l[3]), now)
      withPublishers == Listed(created, "pub", l[4])
      withSubscribers == Listed(withPublishers, "sub", l[5])
      withServices == Listed(withSubscribers, "srv", l[6])
      withTypes == Typed(withServices, l[7])
      withNodes == NodeInformed(withTypes, l[8])
  IN ServiceInformed(withNodes, l[9])

\* lines 635-644 and 704-713, as the sets line 776 and 784 make of them
node_uris(self) == {self.__nodelist[n].__uri : n \in DOMAIN self.__nodelist}
service_uris(self) == {self.__servicelist[s].__uri : s \in DOMAIN self.__servicelist}

\* lines 763-801; s ^ t of two sets is empty when they are equal
__eq__(self, other) ==
  /\ other /= NoObject
  /\ self.__masteruri = other.__masteruri
  /\ node_uris(self) = node_uris(other)
  /\ DOMAIN self.__nodelist = DOMAIN other.__nodelist
  /\ DOMAIN self.__topiclist = DOMAIN other.__topiclist
  /\ DOMAIN self.__servicelist = DOMAIN other.__servicelist
  /\ service_uris(self) = service_uris(other)
  /\ \A name \in DOMAIN self.__nodelist :
       name \in DOMAIN other.__nodelist =>
         LET n1 == self.__nodelist[name]
             n2 == other.__nodelist[name]
         IN /\ n1.pid = n2.pid
            /\ n1.__uri = n2.__uri
            /\ SeqToSet(n1._publishedTopics) = SeqToSet(n2._publishedTopics)
            /\ SeqToSet(n1._subscribedTopics) = SeqToSet(n2._subscribedTopics)
            /\ SeqToSet(n1._services) = SeqToSet(n2._services)

\* the snapshots the wire form is made of: every list of publishers of "/t",
\* a topic nobody uses, a service without a type, nodes of a second master,
\* nodes nobody refers to, and a node that lost its own list of topics
NoDupLists(S) == UNION {Orders(T) : T \in SUBSET S}

InfoPublisherLists ==
  {f \in [InfoTopicNames -> NoDupLists(NodeNames)] : f["/u"] \in {<<>>, <<"/a">>}}

InfoSubscriberLists ==
  {f \in [InfoTopicNames -> {<<>>, <<"/b">>}] : f["/u"] = <<>>}

NodeProfiles ==
  {[uri |-> None, masteruri |-> RemoteMasterUri, pid |-> NoPid],
   [uri |-> "http://remote:40001", masteruri |-> RemoteMasterUri, pid |-> 7],
   [uri |-> "http://third:40001", masteruri |-> ThirdMasterUri, pid |-> NoPid]}

ServiceProfiles ==
  {[uri |-> None, masteruri |-> RemoteMasterUri, type |-> None],
   [uri |-> "rosrpc://remote:50001", masteruri |-> RemoteMasterUri, type |-> "std_srvs/Empty"],
   [uri |-> "rosrpc://third:50001", masteruri |-> None, type |-> None]}

ProviderLists == {<<>>, <<"/a">>, <<"/b", "/a">>}

Made(pub, sub, lonely, provided, service, profile, allNodes, forgot) ==
  LET prov == IF provided THEN service.provider ELSE <<>>
      topicsIn == {t \in InfoTopicNames : pub[t] /= <<>> \/ sub[t] /= <<>> \/ lonely}
      nodesIn == IF allNodes
                   THEN NodeNames
                   ELSE UNION ({SeqToSet(pub[t]) \cup SeqToSet(sub[t]) : t \in InfoTopicNames}
                               \cup {SeqToSet(prov)})
      TopicsOf(n, lists) == SelectSeq(<<"/t", "/u">>, LAMBDA t : n \in SeqToSet(lists[t]))
      created == NewMasterInfo(RemoteMasterUri, None)
      node(n) ==
        [masteruri_setter(uri_setter(NewNodeInfo(n, created.__masteruri), profile[n].uri),
                          profile[n].masteruri)
           EXCEPT !.pid = profile[n].pid,
                  !._publishedTopics = IF forgot /\ n = "/a" THEN <<>> ELSE TopicsOf(n, pub),
                  !._subscribedTopics = TopicsOf(n, sub),
                  !._services = IF n \in SeqToSet(prov) THEN <<"/s">> ELSE <<>>]
      topic(t) ==
        [NewTopicInfo(t) EXCEPT !.type = IF pub[t] /= <<>> THEN "std_msgs/String" ELSE None,
                             !._publisherNodes = pub[t],
                             !._subscriberNodes = sub[t]]
      srv(s) ==
        [masteruri_setter(uri_setter(NewServiceInfo(s, created.__masteruri), service.profile.uri),
                          service.profile.masteruri)
           EXCEPT !.type = service.profile.type,
                  !.__serviceProvider = prov]
  IN [timestamp_setter(created, 1)
        EXCEPT !.__nodelist = [n \in nodesIn |-> node(n)],
               !.__topiclist = [t \in topicsIn |-> topic(t)],
               !.__servicelist = [s \in IF provided THEN InfoServiceNames ELSE {} |-> srv(s)]]

MasterInfos ==
  {Made(pub, sub, lonely, provided, service, profile, allNodes, forgot) :
     pub \in InfoPublisherLists, sub \in InfoSubscriberLists, lonely \in BOOLEAN,
     provided \in BOOLEAN,
     service \in [provider : ProviderLists, profile : ServiceProfiles],
     profile \in {f \in [NodeNames -> NodeProfiles] : f["/b"].pid = NoPid},
     allNodes \in BOOLEAN, forgot \in BOOLEAN}

InitRound ==
  /\ InitWith({DefaultPatterns})
  /\ minfo \in MasterInfos
  /\ listed = NoObject
  /\ restored = NoObject
  /\ endpoint = NoObject
  /\ paramCache = NoObject
  /\ paramRecent = NoObject

\* l = minfo.listedState()
ListedState ==
  /\ minfo /= NoObject
  /\ listed = NoObject
  /\ \E topicOrder \in Orders(DOMAIN minfo.__topiclist),
        serviceOrder \in Orders(DOMAIN minfo.__servicelist),
        nodeOrder \in Orders(DOMAIN minfo.__nodelist) :
       listed' = listedState(minfo, topicOrder, serviceOrder, nodeOrder)
  /\ UNCHANGED <<minfo, restored, endpoint, paramCache, paramRecent, syncVars>>

\* MasterInfo.from_list(l)
FromList ==
  /\ listed /= NoObject
  /\ restored = NoObject
  /\ restored' = from_list(listed, MaxStamp)
  /\ UNCHANGED <<minfo, listed, endpoint, paramCache, paramRecent, syncVars>>

\* SpecRound: the wire form of a snapshot and the snapshot made from it
NextRound ==
  \/ ListedState
  \/ FromList

SpecRound == InitRound /\ [][NextRound]_vars

\* SpecLocal: a node or a service of a snapshot and the calls of its setters
InitLocal ==
  /\ InitWith({DefaultPatterns})
  /\ minfo = NoObject
  /\ listed = NoObject
  /\ restored = NoObject
  /\ endpoint \in {NewNodeInfo("/a", masteruri) : masteruri \in MasterUris}
                  \cup {NewServiceInfo("/s", masteruri) : masteruri \in MasterUris}
  /\ paramCache = NoObject
  /\ paramRecent = NoObject

\* endpoint.uri = uri
SetUri ==
  /\ endpoint /= NoObject
  /\ \E uri \in EndpointUris : endpoint' = uri_setter(endpoint, uri)
  /\ UNCHANGED <<minfo, listed, restored, paramCache, paramRecent, syncVars>>

\* endpoint.masteruri = uri
SetMasteruri ==
  /\ endpoint /= NoObject
  /\ \E uri \in MasterUris \cup {None} : endpoint' = masteruri_setter(endpoint, uri)
  /\ UNCHANGED <<minfo, listed, restored, paramCache, paramRecent, syncVars>>

NextLocal ==
  \/ SetUri
  \/ SetMasteruri

SpecLocal == InitLocal /\ [][NextLocal]_vars

(* history.py: the cache of the values entered for each parameter          *)

HISTORY_LENGTH == 3   \* line 39 has 12; the lists of the model are cut at a shorter length

\* unicode(value) of a string, of an integer and of None
unicode(value) == IF value.type = "none" THEN "None" ELSE value.text

ParamKeys == {"/p", "/q", "", None}

ParamValues ==
  {[type |-> "str", text |-> "a"], [type |-> "str", text |-> "b"],
   [type |-> "str", text |-> "1"], [type |-> "int", text |-> "1"],
   [type |-> "str", text |-> ""], [type |-> "none", text |-> ""]}

\* list.remove(x): the first x of the list is taken out
Removed(list, x) ==
  LET i == CHOOSE k \in 1..Len(list) : list[k] = x /\ \A j \in 1..(k - 1) : list[j] /= x
  IN SubSeq(list, 1, i - 1) \o SubSeq(list, i + 1, Len(list))

\* lines 118-129 without lines 126-127
_add2Cache_Unbounded(cache, key, value) ==
  LET uvalue == unicode(value)
  IN IF key \in {None, ""} \/ uvalue = ""
       THEN cache
       ELSE IF key \notin DOMAIN cache
         THEN cache @@ (key :> <<uvalue>>)
         ELSE IF uvalue \notin SeqToSet(cache[key])
           THEN [cache EXCEPT ![key] = <<uvalue>> \o @]
           ELSE [cache EXCEPT ![key] = <<uvalue>> \o Removed(@, uvalue)]

\* lines 118-129
_add2Cache(cache, key, value) ==
  LET uvalue == unicode(value)
  IN IF key \in {None, ""} \/ uvalue = ""
       THEN cache
       ELSE IF key \notin DOMAIN cache
         THEN cache @@ (key :> <<uvalue>>)
         ELSE IF uvalue \notin SeqToSet(cache[key])
           THEN LET inserted == <<uvalue>> \o cache[key]
                IN [cache EXCEPT ![key] = IF Len(inserted) >= HISTORY_LENGTH
                                            THEN SubSeq(inserted, 1, Len(inserted) - 1)
                                            ELSE inserted]
           ELSE [cache EXCEPT ![key] = <<uvalue>> \o Removed(@, uvalue)]

\* lines 131-141
_removeFromCache(cache, key, value) ==
  LET uvalue == unicode(value)
  IN IF key \in {None, ""} \/ uvalue = "" \/ key \notin DOMAIN cache
       THEN cache
       ELSE LET value_list == IF uvalue \in SeqToSet(cache[key])
                                THEN Removed(cache[key], uvalue)
                                ELSE cache[key]
            IN IF Len(value_list) = 0
                 THEN [k \in DOMAIN cache \ {key} |-> cache[k]]   \* del cache[key]
                 ELSE [cache EXCEPT ![key] = value_list]

\* the values added for the key and not removed since, the last added first
Recent(recent, key) == IF key \in DOMAIN recent THEN recent[key] ELSE <<>>

InitHistory ==
  /\ InitWith({DefaultPatterns})
  /\ minfo = NoObject
  /\ listed = NoObject
  /\ restored = NoObject
  /\ endpoint = NoObject
  /\ paramCache = <<>>
  /\ paramRecent = <<>>

\* lines 60-61
AddParamCache ==
  /\ \E key \in ParamKeys, value \in ParamValues :
       /\ paramCache' = _add2Cache(paramCache, key, value)
       /\ paramRecent' =
            IF key \in {None, ""} \/ unicode(value) = ""
              THEN paramRecent
              ELSE [k \in DOMAIN paramRecent \cup {key} |->
                      IF k = key
                        THEN <<unicode(value)>>
                             \o SelectSeq(Recent(paramRecent, key),
                                          LAMBDA x : x /= unicode(value))
                        ELSE paramRecent[k]]
  /\ UNCHANGED <<minfo, listed, restored, endpoint, syncVars>>

\* lines 63-64
RemoveParamCache ==
  /\ \E key \in ParamKeys, value \in ParamValues :
       /\ paramCache' = _removeFromCache(paramCache, key, value)
       /\ paramRecent' =
            IF key \in DOMAIN paramRecent
              THEN [paramRecent EXCEPT ![key] = SelectSeq(@, LAMBDA x : x /= unicode(value))]
              ELSE paramRecent
  /\ UNCHANGED <<minfo, listed, restored, endpoint, syncVars>>

\* SpecHistory: the calls of addParamCache and removeParamCache
NextHistory ==
  \/ AddParamCache
  \/ RemoveParamCache

SpecHistory == InitHistory /\ [][NextHistory]_vars

\* SpecApply: the multicalls and what may become of them: an item answered
\* with a code other than 1, a call that raises before or after the local
\* master has executed it
NextApply ==
  \/ LoopHead
  \/ RetryWake
  \/ Acquire
  \/ Reacquire
  \/ Notified(PassWaits)
  \/ CongestionWake(PassWaits)
  \/ Sync(Snapshots, Faults)
  \/ Teardown(Faults)
  \/ Update(Stamps, NoTime)
  \/ Stop
  \/ Resume
  \/ Advance(Steps, Places)

SpecApply == Init /\ [][NextApply]_vars

-----------------------------------------------------------------------------
(* The reconciliation                                                      *)

\* the items of the calls of the pass that are of this kind
Issued(kind) == {handler[i].item : i \in {j \in 1..Len(handler) : handler[j].kind = kind}}

TopicKeys(items) == {TopicKey(x) : x \in items}

\* toRemove is A minus B, toAdd is B minus A, and A with toAdd and without toRemove is B
Diff(A, toRemove, toAdd, B) ==
  /\ toRemove = A \ B
  /\ toAdd = B \ A
  /\ (A \cup toAdd) \ toRemove = B

\* C1: after a pass that succeeded with every item answered with code 1, for
\* publishers, subscribers and services each: the unregister calls of the pass
\* are the items mirrored before and not now, its register calls are the items
\* mirrored now and not before
C1_DiffCorrect ==
  (passResult = "ok" /\ failedItems = {}) =>
    /\ Diff(SeqToSet(prevMirrored.pub), Issued("upub"), TopicKeys(Issued("pub")),
            SeqToSet(publisher))
    /\ Diff(SeqToSet(prevMirrored.sub), Issued("usub"), TopicKeys(Issued("sub")),
            SeqToSet(subscriber))
    /\ Diff(SeqToSet(prevMirrored.srv), Issued("usrv"), Issued("srv"),
            SeqToSet(services))

C1_Witness ==
  /\ passResult = "ok"
  /\ failedItems = {}
  /\ Issued("upub") /= {}
  /\ Issued("pub") /= {}
  /\ Issued("usub") /= {}
  /\ Issued("usrv") /= {}

\* C2: a successful pass that follows a successful pass over the same remote
\* state, with the same local state, issues no call
C2_SecondPassIssuesNothing ==
  (passResult = "ok" /\ samePass) => handler = <<>>

C2_Witness ==
  /\ passResult = "ok"
  /\ samePass
  /\ publisher /= <<>>
  /\ subscriber /= <<>>
  /\ services /= <<>>

\* the remote state names the local master as the owner of the node / service
NodeOwnedLocally(snap, node) ==
  \E i \in 1..Len(snap.nodeProviders) :
    snap.nodeProviders[i][1] = node /\ snap.nodeProviders[i][3] = LocalMasterUri

ServiceOwnedLocally(snap, service) ==
  \E i \in 1..Len(snap.serviceProviders) :
    snap.serviceProviders[i][1] = service /\ snap.serviceProviders[i][3] = LocalMasterUri

\* C8: a pass neither registers nor mirrors a topic of a node, or a service,
\* that the remote state of the pass gives the local master as owner
C8_NoSelfMirroring ==
  passResult = "ok" =>
    /\ \A x \in Issued("pub") \cup Issued("sub") : ~NodeOwnedLocally(snapshot, x[3])
    /\ \A x \in SeqToSet(publisher) \cup SeqToSet(subscriber) :
         ~NodeOwnedLocally(snapshot, x[2])
    /\ \A x \in Issued("srv") \cup SeqToSet(services) :
         ~NodeOwnedLocally(snapshot, x[3]) /\ ~ServiceOwnedLocally(snapshot, x[1])

C8_Witness ==
  /\ passResult = "ok"
  /\ snapshot.masteruri = LocalMasterUri
  /\ snapshot.publishers /= <<>>
  /\ snapshot.rservices /= <<>>
  /\ NodeOwnedLocally(snapshot, "/lidar")
  /\ ServiceOwnedLocally(snapshot, "/lidar/set_parameters")
  /\ prevMirrored.pub /= <<>>
  /\ publisher = <<>>

-----------------------------------------------------------------------------
(* The filter                                                              *)

IgnoredNT(x) == Match(config.ignore_nodes, x[2]) \/ Match(config.ignore_topics, x[1])
IgnoredNS(x) == Match(config.ignore_nodes, x[3]) \/ Match(config.ignore_services, x[1])

\* C9: no topic is registered or mirrored whose node matches ignore_nodes or
\* whose name matches ignore_topics, and no service whose node matches
\* ignore_nodes or whose name matches ignore_services
C9_IgnoreWins ==
  /\ \A x \in SeqToSet(publisher) \cup SeqToSet(subscriber) : ~IgnoredNT(x)
  /\ \A x \in TopicKeys(Issued("pub")) \cup TopicKeys(Issued("sub")) : ~IgnoredNT(x)
  /\ \A x \in SeqToSet(services) \cup Issued("srv") : ~IgnoredNS(x)

\* a pass has mirrored /lidar's topic while /cam and the service are on an
\* ignore list and on a sync list both
C9_Witness ==
  /\ passResult = "ok"
  /\ snapshot.publishers = AllOfIt[1]
  /\ snapshot.rservices = AllOfIt[3]
  /\ Match(config.ignore_nodes, "/cam") /\ Match(config.sync_nodes, "/cam")
  /\ Match(config.ignore_services, "/lidar/set_parameters")
  /\ Match(config.sync_services, "/lidar/set_parameters")
  /\ publisher = << <<"/scan", "/lidar", "http://h1:1">> >>
  /\ services = <<>>

\* the pairs (topic, node) of the publishers and subscribers of the remote state
\* that have a type and a URI and that no list of the filter matches
Undecided(snap, list) ==
  { x \in SeqToSet(Pairs(list)) :
      /\ Truthy(_getTopicType(x[1], snap.topicTypes))
      /\ Truthy(_getNodeUri(x[2], snap.nodeProviders, snap.masteruri))
      /\ ~Match(config.ignore_nodes, x[2]) /\ ~Match(config.ignore_topics, x[1])
      /\ ~Match(config.sync_nodes, x[2]) /\ ~Match(config.sync_topics, x[1]) }

\* the local master knows the topic and one of its nodes there is local
SatisfiedLocally(own, topic) ==
  /\ topic \in DOMAIN own.topics
  /\ \E n \in SeqToSet(own.topics[topic].publisherNodes \o own.topics[topic].subscriberNodes) :
       n \in DOMAIN own.nodes /\ own.nodes[n].isLocal

MirroredPairs(list) == {<<x[1], x[2]>> : x \in SeqToSet(list)}

\* a pass has just succeeded and the local state is the one it has read
PassWithLocalState == passResult = "ok" /\ own_state /= NoObject /\ ~ownChanged

\* C10: after a pass with a known local state, a topic registration that no
\* list matches is mirrored exactly if the local master does not know the
\* topic or has no local node for it
C10_LocalityRule ==
  PassWithLocalState =>
    /\ \A x \in Undecided(snapshot, snapshot.publishers) :
         (x \in MirroredPairs(publisher)) <=> ~SatisfiedLocally(own_state, x[1])
    /\ \A x \in Undecided(snapshot, snapshot.subscribers) :
         (x \in MirroredPairs(subscriber)) <=> ~SatisfiedLocally(own_state, x[1])

\* what lines 399-409 do: such a registration is mirrored exactly if the local
\* master knows the topic and has a local node for it
LocalityRuleOfTheCode ==
  PassWithLocalState =>
    /\ \A x \in Undecided(snapshot, snapshot.publishers) :
         (x \in MirroredPairs(publisher)) <=> SatisfiedLocally(own_state, x[1])
    /\ \A x \in Undecided(snapshot, snapshot.subscribers) :
         (x \in MirroredPairs(subscriber)) <=> SatisfiedLocally(own_state, x[1])

\* a pass with a local state that knows no topic has mirrored no topic
C10_Witness ==
  /\ PassWithLocalState
  /\ Undecided(snapshot, snapshot.publishers) /= {}
  /\ ~SatisfiedLocally(own_state, "/scan")
  /\ prevMirrored.pub /= <<>>
  /\ publisher = <<>>

\* the pairs (name, node) of a list of the remote state that have a type (a
\* service: a URI) and a node URI and that no ignore list matches
Resolved(snap, list, isService) ==
  { x \in SeqToSet(Pairs(list)) :
      /\ Truthy(_getNodeUri(x[2], snap.nodeProviders, snap.masteruri))
      /\ IF isService
           THEN Truthy(_getServiceUri(x[1], snap.serviceProviders, snap.masteruri))
           ELSE Truthy(_getTopicType(x[1], snap.topicTypes))
      /\ ~Match(config.ignore_nodes, x[2])
      /\ ~Match(IF isService THEN config.ignore_services ELSE config.ignore_topics, x[1]) }

\* the list was given names: its pattern is not the one of an empty list
Configured(pattern) == pattern /= EMPTY_PATTERN

\* mirrored exactly if no sync list of the two is configured or one of them matches
BySyncLists(x, isMirrored, nameList) ==
  isMirrored <=>
    \/ ~Configured(config.sync_nodes) /\ ~Configured(nameList)
    \/ Match(config.sync_nodes, x[2])
    \/ Match(nameList, x[1])

MirroredServicePairs == {<<x[1], x[3]>> : x \in SeqToSet(services)}

\* C11: after a pass without a local state, a registration that no ignore
\* list matches is mirrored if neither sync_nodes nor the sync list of its
\* kind is configured, and else exactly if one of the two matches it
C11_SyncListsDecide ==
  (passResult = "ok" /\ own_state = NoObject) =>
    /\ \A x \in Resolved(snapshot, snapshot.publishers, FALSE) :
         BySyncLists(x, x \in MirroredPairs(publisher), config.sync_topics)
    /\ \A x \in Resolved(snapshot, snapshot.subscribers, FALSE) :
         BySyncLists(x, x \in MirroredPairs(subscriber), config.sync_topics)
    /\ \A x \in Resolved(snapshot, snapshot.rservices, TRUE) :
         BySyncLists(x, x \in MirroredServicePairs, config.sync_services)

\* sync_nodes names /cam alone: /cam's topic is mirrored, /lidar's topic and
\* service are not
C11_Witness ==
  /\ passResult = "ok"
  /\ own_state = NoObject
  /\ Resolved(snapshot, snapshot.publishers, FALSE) = {<<"/scan", "/lidar">>, <<"/scan", "/cam">>}
  /\ Resolved(snapshot, snapshot.rservices, TRUE) /= {}
  /\ Configured(config.sync_nodes)
  /\ ~Configured(config.sync_topics)
  /\ MirroredPairs(publisher) = {<<"/scan", "/cam">>}
  /\ services = <<>>

\* no list is configured and everything is mirrored
C11_WitnessDefault ==
  /\ passResult = "ok"
  /\ own_state = NoObject
  /\ ~Configured(config.sync_nodes) /\ ~Configured(config.sync_topics)
  /\ MirroredPairs(publisher) = {<<"/scan", "/lidar">>, <<"/scan", "/cam">>}

-----------------------------------------------------------------------------
(* The bookkeeping of a pass                                               *)

\* the step that ends a pass with success
PassEndsWell == pc = "fetch" /\ passResult' = "ok"

\* C12: the step that ends a successful pass leaves syncts and lastsync at the
\* stamp of the fetched remote state and no first request pending
C12_SuccessBookkeeping ==
  [][PassEndsWell =>
       /\ masterInfo'.syncts = snapshot'.stamp
       /\ masterInfo'.lastsync = snapshot'.stamp
       /\ _ts_first_update_request' = NoTime]_vars

\* a pass that served a request of update() has just ended: the time of the
\* last request is still there, the time of the first one is cleared
C12_Witness ==
  /\ passResult = "ok"
  /\ pc = "loop"
  /\ caller = NoCall
  /\ masterInfo.syncts = MaxStamp
  /\ masterInfo.lastsync = MaxStamp
  /\ _ts_last_update_request /= NoTime
  /\ _ts_first_update_request = NoTime

\* the pass has just failed
Failed == passResult \in {"fetch", "lost", "answer_lost"}

Stopping == stop_flag \/ shutdown

\* C13: after a pass that failed syncts is 0 and the worker goes into the
\* sleep of 3 s; unless a stop is requested it comes to the fetch again, with
\* no call of update() or setOwnMasterState() needed, and a pass succeeds
C13_RetryAfterFailure ==
  /\ [](Failed => masterInfo.syncts = 0 /\ do_wait)
  /\ [][(Failed /\ pc = "loop" /\ pc' /= "loop" /\ ~Stopping)
          => pc' = "sleep3" /\ sleepLeft' = RetryDelay]_vars
  /\ Failed ~> (pc = "fetch" \/ Stopping)
  /\ Failed ~> (passResult = "ok" \/ Stopping)

\* the worker is at the fetch again after a pass that failed, and no call
\* has ever asked for a pass
C13_Witness ==
  /\ pc = "fetch"
  /\ do_wait
  /\ snapshot = NoObject
  /\ masterInfo.syncts = 0
  /\ _ts_last_update_request = NoTime
  /\ caller = NoCall
  /\ ~Stopping

-----------------------------------------------------------------------------
(* The multicall and the local master                                      *)

\* the mirrored lists as the registrations the local master keys
MirroredKeys ==
  {<<"pub", x>> : x \in SeqToSet(publisher)}
    \cup {<<"sub", x>> : x \in SeqToSet(subscriber)}
    \cup {<<"srv", x>> : x \in SeqToSet(services)}

FailedRegistrations ==
  {RegKey(handler[i]) : i \in {j \in failedItems : IsRegister(handler[j])}}

AnsweredRegistrations ==
  {RegKey(handler[i]) : i \in {j \in 1..Len(handler) : IsRegister(handler[j]) /\ j \notin failedItems}}

\* C14: after a pass whose multicall returned, a registration whose register
\* call was answered with a code other than 1 is not mirrored, and the
\* registrations whose calls were answered with 1 are
C14_FailedItemNotMirrored ==
  passResult = "ok" =>
    /\ FailedRegistrations \cap MirroredKeys = {}
    /\ AnsweredRegistrations \subseteq MirroredKeys

\* a register call of the pass was answered with a code other than 1 and
\* another one with 1
C14_Witness ==
  /\ passResult = "ok"
  /\ FailedRegistrations /= {}
  /\ AnsweredRegistrations /= {}

\* no element stands twice in the list
NoDuplicates(list) == \A i, j \in 1..Len(list) : list[i] = list[j] => i = j

NodeUriNow(node) == _getNodeUri(node, snapshot.nodeProviders, snapshot.masteruri)

\* the fetched state lists the topic with the node, and the pass accepts it
ListedTopic(list, topic, node) ==
  /\ <<topic, node>> \in SeqToSet(Pairs(list))
  /\ Truthy(_getTopicType(topic, snapshot.topicTypes))
  /\ Truthy(NodeUriNow(node))
  /\ ~_doIgnoreNT(node, topic, config, own_state)

ListedService(service, node) ==
  /\ <<service, node>> \in SeqToSet(Pairs(snapshot.rservices))
  /\ Truthy(_getServiceUri(service, snapshot.serviceProviders, snapshot.masteruri))
  /\ Truthy(NodeUriNow(node))
  /\ ~_doIgnoreNS(node, service, config)

\* the tuple mirrored before is taken back and the one with the node's new
\* URI is registered and alone of its topic and node in the list
TopicMoved(old, unregistered, registered, list) ==
  LET new == <<old[1], old[2], NodeUriNow(old[2])>>
  IN /\ old \in unregistered
     /\ new \in TopicKeys(registered)
     /\ {y \in SeqToSet(list) : y[1] = old[1] /\ y[2] = old[2]} = {new}

ServiceMoved(old) ==
  LET serviceuri == _getServiceUri(old[1], snapshot.serviceProviders, snapshot.masteruri)
      new == <<old[1], serviceuri, old[3], NodeUriNow(old[3])>>
  IN /\ old \in Issued("usrv")
     /\ new \in Issued("srv")
     /\ {y \in SeqToSet(services) : y[1] = old[1] /\ y[3] = old[3]} = {new}

\* C19: a successful pass that finds a mirrored topic or service listed with
\* its node under another URI unregisters the old tuple, registers the new
\* one and mirrors the new one only
C19_UriChange ==
  (passResult = "ok" /\ ~ownChanged) =>
    /\ \A old \in SeqToSet(prevMirrored.pub) :
         (ListedTopic(snapshot.publishers, old[1], old[2]) /\ NodeUriNow(old[2]) /= old[3])
           => TopicMoved(old, Issued("upub"), Issued("pub"), publisher)
    /\ \A old \in SeqToSet(prevMirrored.sub) :
         (ListedTopic(snapshot.subscribers, old[1], old[2]) /\ NodeUriNow(old[2]) /= old[3])
           => TopicMoved(old, Issued("usub"), Issued("sub"), subscriber)
    /\ \A old \in SeqToSet(prevMirrored.srv) :
         (ListedService(old[1], old[3]) /\ NodeUriNow(old[3]) /= old[4])
           => ServiceMoved(old)

\* /lidar, mirrored as publisher of /scan and with its service under
\* http://h1:1, is found under http://h1:9
C19_Witness ==
  /\ passResult = "ok"
  /\ ~ownChanged
  /\ <<"/scan", "/lidar", "http://h1:1">> \in SeqToSet(prevMirrored.pub)
  /\ <<"/scan", "/lidar", "http://h1:9">> \in SeqToSet(publisher)
  /\ \E old \in SeqToSet(prevMirrored.srv) :
       ListedService(old[1], old[3]) /\ NodeUriNow(old[3]) /= old[4]

\* update() was called while the worker held the lock, and stands at line 158
UpdateBlocked == caller.op = "update"

\* the timestamp of the blocked call is not the one the session holds
BlockedWithChange ==
  /\ UpdateBlocked
  /\ cv_locked
  /\ \/ masterInfo.timestamp_local = Unset
     \/ Str(masterInfo.timestamp_local) /= Str(caller.timestamp)

\* the pass during which the call came is over and has stored the timestamp
\* the call carries
StoredByThePass ==
  /\ masterInfo.timestamp_local /= Unset
  /\ Str(masterInfo.timestamp_local) = Str(caller.timestamp)

\* the step that blocks a call at the lock
Blocks == caller = NoCall /\ caller' /= NoCall

RequestMade ==
  /\ masterInfo'.syncts = 0
  /\ _ts_last_update_request' = 0
  /\ _ts_first_update_request' =
       IF _ts_first_update_request = NoTime THEN 0 ELSE _ts_first_update_request
  /\ pc = "waiting" => pc' = "woken"

\* a blocked setOwnMasterState(s) gets the lock, and s is new to the session
NewLocalStateComesIn ==
  /\ caller.op = "setOwnMasterState"
  /\ caller' = NoCall
  /\ own_state = NoObject \/ own_state.timestamp_local /= caller.own_state.timestamp_local

\* the lists of a pass are the accepted registrations under the local state
DecidedAgainst(own) ==
  /\ publisher = DesiredTopics(Pairs(snapshot.publishers), snapshot, config, own)
  /\ subscriber = DesiredTopics(Pairs(snapshot.subscribers), snapshot, config, own)

\* C21: a local state with a new timestamp_local is stored with the request
\* times, syncts is reset and the waiting worker is woken; the worker then
\* comes to a fetch (or a stop is requested), and a pass that succeeds decides
\* the topics against the stored local state
C21_LocalStateTriggersPass ==
  /\ [][own_state' /= own_state => RequestMade]_vars
  /\ [][NewLocalStateComesIn => own_state' = caller.own_state /\ RequestMade]_vars
  /\ (own_state /= NoObject /\ ownChanged) ~> (pc = "fetch" \/ Stopping)
  /\ [](PassWithLocalState => DecidedAgainst(own_state))

\* a pass has succeeded with a local state that came after the pass before,
\* and has decided otherwise than that
C21_Witness ==
  /\ PassWithLocalState
  /\ own_state.timestamp_local = MaxStamp
  /\ prevMirrored.pub /= publisher
  /\ ~DecidedAgainst(NoObject)

\* line 160 reads self.masterInfo.timestamp_local, which exists only after
\* line 357 has run: before that the read raises AttributeError
AttributeError == masterInfo.timestamp_local = Unset

\* an update() that stood at line 158 gets the lock and runs lines 159-171
UpdateRuns == caller.op = "update" /\ caller' = NoCall

\* C22: whenever the body of update() runs, it returns without an exception
C22_UpdateReturns == [][UpdateRuns => ~AttributeError]_vars

\* update() was called during the first pass, the pass has failed, and the
\* call is about to get the lock
C22_Witness ==
  /\ caller.op = "update"
  /\ ~cv_locked
  /\ Failed
  /\ AttributeError

\* C23: after a pass that failed nothing is mirrored
C23_FailureClearsMirrored ==
  Failed => publisher = <<>> /\ subscriber = <<>> /\ services = <<>>

\* a pass has failed in a session with mirrored registrations, and the lists
\* and the local master hold them as before
C23_Witness ==
  /\ Failed
  /\ publisher /= <<>>
  /\ Mirrored = prevMirrored
  /\ MirroredKeys \subseteq registry

\* C24: a pass that fails leaves the worker at the head of its loop with the
\* lock released, and the worker leaves the loop for the teardown only when
\* stop() was called or the runtime shuts down
C24_OnlyStopEndsLoop ==
  /\ [](Failed => pc = "loop" /\ ~cv_locked)
  /\ [][(pc /= "teardown" /\ pc' = "teardown") => Stopping]_vars
  /\ [](pc \in {"teardown", "done"} => Stopping)

\* the multicall of a pass has raised, nobody has asked for a stop, and the
\* worker is back at the head of its loop
C24_Witness ==
  /\ passResult = "lost"
  /\ handler /= <<>>
  /\ pc = "loop"
  /\ ~Stopping

\* the step writes the time: it is set to now or to None
Written(t, u) == u /= t /\ u \in {0, NoTime}

ListsWritten == <<publisher, subscriber, services>>' /= <<publisher, subscriber, services>>

FieldsWritten ==
  \/ masterInfo' /= masterInfo
  \/ own_state' /= own_state
  \/ Written(_ts_first_update_request, _ts_first_update_request')
  \/ Written(_ts_last_update_request, _ts_last_update_request')

\* the step that ends a pass: the worker is the one that takes it
EndOfPass == pc = "fetch" /\ pc' = "loop"

\* C25 as stated: the mirrored lists, the request times, the fields of
\* masterInfo and the local state are written by steps of the worker only
C25_OnlyWorkerWrites == [][(ListsWritten \/ FieldsWritten) => EndOfPass]_vars

\* C25: the mirrored lists are written by the worker only, at the end of a
\* pass; the request times, the fields of masterInfo and the local state are
\* written there and by the callers, and by these, as the stop flag, only
\* while the worker does not hold the lock
C25_WritesUnderTheLock ==
  /\ [][ListsWritten => EndOfPass]_vars
  /\ [][FieldsWritten => EndOfPass \/ (~cv_locked /\ RequestMade)]_vars
  /\ [][stop_flag' /= stop_flag => ~cv_locked]_vars

\* setOwnMasterState() has stored a local state and the request times right
\* after a pass, with the worker at the head of its loop
C25_Witness ==
  /\ passResult = "ok"
  /\ pc = "loop"
  /\ own_state /= NoObject
  /\ ownChanged
  /\ masterInfo.syncts = 0
  /\ _ts_first_update_request = 0

\* C26: what getSyncInfo() has built, and returns as long as it is kept, are
\* the publishers and subscribers of the mirrored lists, the names of the
\* mirrored services and the names of the nodes of the three lists
C26_SyncInfoIsCurrent ==
  sync_info /= NoObject =>
    /\ sync_info.publisher = publisher
    /\ sync_info.subscriber = subscriber
    /\ sync_info.services = {x[1] : x \in SeqToSet(services)}
    /\ sync_info.nodes = {k[2][IF k[1] = "srv" THEN 3 ELSE 2] : k \in MirroredKeys}

\* getSyncInfo() was called after a pass that changed the lists
C26_Witness ==
  /\ sync_info /= NoObject
  /\ passResult = "ok"
  /\ prevMirrored /= Mirrored
  /\ sync_info.nodes = {"/lidar", "/cam"}

\* C27: an update() that came while the worker held the lock for a pass is
\* ignored: when it goes on after the pass it changes nothing of the session
\* and does not send the worker to a further pass
C27_UpdateDuringPassIgnored ==
  [][UpdateRuns => UNCHANGED <<masterInfo, requestVars, workerVars>>]_vars

\* an update() with a timestamp the session does not hold stands at line 158
\* while the worker is about to fetch
C27_Witness ==
  /\ BlockedWithChange
  /\ pc = "fetch"
  /\ masterInfo.timestamp_local /= Unset

\* stop() was called while the worker sleeps in the loop of lines 225-230
StopDuringDebounce == pc = "congestion" /\ caller.op = "stop"

\* C28: when stop() is called during the sleeps of the congestion avoidance,
\* the worker does not go on to the fetch
C28_StopEndsDebounce == [][StopDuringDebounce => pc' /= "fetch"]_vars

\* the stop() stands at line 199 while the sleep of line 229 runs
C28_Witness ==
  /\ StopDuringDebounce
  /\ sleepLeft > 0
  /\ ~stop_flag

\* C29: the fetch of every session is started with the timeout of 20 s, the
\* multicall of every session with the timeout of 3 s
C29_TimeoutsInEffect ==
  \A s \in Sessions :
    /\ rpc[s].kind = "fetch" => rpc[s].timeout = FetchTimeout
    /\ rpc[s].kind = "multicall" => rpc[s].timeout = ApplyTimeout

\* a session has started its fetch with no timeout, the other one having
\* reset it after its own multicall
C29_Witness ==
  /\ rpc["a"] = [kind |-> "fetch", timeout |-> NoTimeout]
  /\ rpc["b"].kind = "multicall"
  /\ at["b"] = "idle"

\* the step of a pass whose fetch raises
FetchFailed == pc = "fetch" /\ passResult' = "fetch"

\* C30: a pass whose fetch fails is a failed pass (syncts 0, the sleep of 3 s
\* ahead, lastsync and the lists as before) and sends no call to the local
\* master
C30_FetchFailureIssuesNothing ==
  /\ [][FetchFailed =>
          /\ handler' = <<>>
          /\ registry' = registry
          /\ masterInfo'.syncts = 0
          /\ masterInfo'.lastsync = masterInfo.lastsync
          /\ do_wait'
          /\ Mirrored' = Mirrored]_vars
  /\ [](passResult = "fetch" => handler = <<>> /\ do_wait /\ masterInfo.syncts = 0)

\* the fetch has failed in a session that has registrations at the local
\* master
C30_Witness ==
  /\ passResult = "fetch"
  /\ do_wait
  /\ publisher /= <<>>
  /\ registry /= {}
  /\ masterInfo.lastsync /= 0

\* the accepted items of the pass that are mirrored already and whose topic
\* had another type in the remote state of the pass before
ReTyped(items, mirrored) ==
  {x \in SeqToSet(items) :
     /\ TopicKey(x) \in SeqToSet(mirrored)
     /\ _getTopicType(x[1], snapshot.topicTypes) /= x[2]}

\* C31: a pass that follows a successful one registers again, under the new
\* type, every mirrored publisher and subscriber whose topic has changed its
\* type
C31_TypeChangeReRegisters ==
  [][(PassEndsWell /\ lastOk) =>
       /\ \A x \in ReTyped(TopicItems(Pairs(snapshot'.publishers), snapshot', config,
                                      own_state), publisher) :
            \E i \in 1..Len(handler') : handler'[i] = [kind |-> "pub", item |-> x]
       /\ \A x \in ReTyped(TopicItems(Pairs(snapshot'.subscribers), snapshot', config,
                                      own_state), subscriber) :
            \E i \in 1..Len(handler') : handler'[i] = [kind |-> "sub", item |-> x]]_vars

\* a pass has succeeded on a remote state other than that of the pass
\* before, and has sent no call
C31_Witness ==
  /\ passResult = "ok"
  /\ ~samePass
  /\ publisher /= <<>>
  /\ prevMirrored = Mirrored
  /\ handler = <<>>
  /\ snapshot.topicTypes = << <<"/scan", "sensor/Cloud">> >>

\* the masters the remote state gives as owner of the node / service name
Owners(table, name) == {table[i][3] : i \in {j \in 1..Len(table) : table[j][1] = name}}

OwnedByRemote(snap, table, name) == Owners(table, name) = {snap.masteruri}

\* C32: after a successful pass every mirrored or registered publisher and
\* subscriber is of a node that the remote state gives the remote master
\* itself as owner, and every mirrored or registered service is of such a node
\* and has the remote master as owner itself
C32_NoTransitiveMirroring ==
  passResult = "ok" =>
    /\ \A x \in SeqToSet(publisher) \cup SeqToSet(subscriber)
                 \cup TopicKeys(Issued("pub")) \cup TopicKeys(Issued("sub")) :
         OwnedByRemote(snapshot, snapshot.nodeProviders, x[2])
    /\ \A x \in SeqToSet(services) \cup Issued("srv") :
         /\ OwnedByRemote(snapshot, snapshot.nodeProviders, x[3])
         /\ OwnedByRemote(snapshot, snapshot.serviceProviders, x[1])

\* the remote state has /cam from a third master and the service of /lidar
\* too; /lidar's topic alone is mirrored
C32_Witness ==
  /\ passResult = "ok"
  /\ Owners(snapshot.nodeProviders, "/cam") = {ThirdMasterUri}
  /\ Owners(snapshot.serviceProviders, "/lidar/set_parameters") = {ThirdMasterUri}
  /\ snapshot.publishers = AllOfIt[1]
  /\ snapshot.rservices = AllOfIt[3]
  /\ publisher = << <<"/scan", "/lidar", "http://h1:9">> >>
  /\ subscriber = <<>>
  /\ services = <<>>

NothingAsked == lastOk /\ _ts_first_update_request = NoTime

\* C34: the worker that comes to line 217 after a successful pass, with no
\* request made since, goes into wait()
C34_IdleAfterSuccess ==
  [][(pc = "acquire" /\ NothingAsked /\ pc' /= "acquire") => pc' = "waiting"]_vars

\* the worker is at the fetch again after a pass that stored the stamp 0,
\* with no call made
C34_Witness ==
  /\ pc = "fetch"
  /\ NothingAsked
  /\ masterInfo.lastsync = 0
  /\ passResult = "none"
  /\ caller = NoCall
  /\ ~stop_flag

\* no pass of the session has come to its end yet
Fresh == ~do_wait /\ masterInfo.timestamp_local = Unset

\* C35: until its first pass has ended the worker is never in wait() and
\* never in a sleep of the congestion avoidance
C35_FirstPassAtOnce == Fresh => pc \notin {"waiting", "woken", "sleep3", "congestion"}

\* what holds: the worker of a new session is never in wait() nor in the
\* sleep of 3 s before its first pass; it sleeps in the congestion avoidance
\* only for a setOwnMasterState() that has stored a local state, and goes
\* from line 220 to the fetch when no request time is set
C35_FirstPassUnlessLocalState ==
  /\ [](Fresh => pc \notin {"waiting", "woken", "sleep3"})
  /\ [](Fresh /\ pc = "congestion" => own_state /= NoObject)
  /\ [][(Fresh /\ pc = "acquire" /\ pc' /= pc) => pc' = "notified"]_vars
  /\ [][(Fresh /\ pc = "notified" /\ pc' /= pc /\ ~stop_flag
          /\ _ts_first_update_request = NoTime) => pc' = "fetch"]_vars

\* the worker of a new session stands at its first fetch, no call made
C35_Witness ==
  /\ Fresh
  /\ pc = "fetch"
  /\ own_state = NoObject
  /\ caller = NoCall
  /\ _ts_first_update_request = NoTime
  /\ ~stop_flag

\* C36: a publisher is made only for an item of the pass that is a
\* registerSubscriber call answered with code 1 and a list that is not empty;
\* none is left when the pass has ended; an error of the priming leaves the
\* pass a successful one; the mirrored lists are those the remote state
\* gives, the pass unregisters only what was mirrored, and the teardown only
\* what is mirrored
C36_PrimingLeavesNoTrace ==
  /\ \A i \in priming.made :
       /\ i \in 1..Len(handler)
       /\ handler[i].kind = "sub"
       /\ i \notin failedItems
       /\ i \in priming.lists
  /\ priming.left = {}
  /\ priming.raised /= {} => passResult = "ok"
  /\ passResult = "ok" =>
       /\ publisher = DesiredTopics(Pairs(snapshot.publishers), snapshot, config, own_state)
       /\ Issued("upub") \subseteq SeqToSet(prevMirrored.pub)
  /\ pc = "done" =>
       \A i \in 1..Len(teardownCalls) :
         teardownCalls[i].kind = "upub" => teardownCalls[i].item \in SeqToSet(publisher)

\* a pass in which the subscriber was primed and another item was answered
\* with a code other than 1
C36_Witness ==
  /\ passResult = "ok"
  /\ priming.made /= {}
  /\ failedItems /= {}
  /\ Cardinality(priming.lists) > 1

\* a pass in which the priming of the subscriber has raised
C36_WitnessRaised ==
  /\ passResult = "ok"
  /\ priming.raised /= {}
  /\ subscriber /= <<>>

\* every reference of a node to a topic or a service has its counterpart at
\* the topic or the service, and the other way round
Consistent(self) ==
  LET Refers(n, field, item) ==
        n \in DOMAIN self.__nodelist /\ item \in SeqToSet(self.__nodelist[n][field])
      ReferredTo(list, field, item, n) ==
        item \in DOMAIN list /\ n \in SeqToSet(list[item][field])
      Agree(field, list, back) ==
        /\ \A n \in DOMAIN self.__nodelist : \A item \in SeqToSet(self.__nodelist[n][field]) :
             ReferredTo(list, back, item, n)
        /\ \A item \in DOMAIN list : \A n \in SeqToSet(list[item][back]) :
             Refers(n, field, item)
  IN /\ Agree("_publishedTopics", self.__topiclist, "_publisherNodes")
     /\ Agree("_subscribedTopics", self.__topiclist, "_subscriberNodes")
     /\ Agree("_services", self.__servicelist, "__serviceProvider")

\* C37: the snapshot made by from_list() from the wire form listedState() gave
\* of a snapshot with consistent cross-references equals that snapshot under
\* __eq__, whichever of the two is asked
C37_RoundTripEqual ==
  (restored /= NoObject /\ Consistent(minfo)) =>
    __eq__(restored, minfo) /\ __eq__(minfo, restored)

\* a round trip of a snapshot with two nodes, a topic nobody uses and a
\* service without a type; the snapshot that came back is not the same object
C37_Witness ==
  /\ restored /= NoObject
  /\ Consistent(minfo)
  /\ DOMAIN minfo.__nodelist = NodeNames
  /\ DOMAIN minfo.__topiclist = InfoTopicNames
  /\ minfo.__topiclist["/t"]._publisherNodes = <<"/b", "/a">>
  /\ minfo.__topiclist["/u"]._publisherNodes = <<>>
  /\ "/s" \in DOMAIN minfo.__servicelist
  /\ minfo.__servicelist["/s"].type = None
  /\ restored.__servicelist["/s"].type = EmptyString
  /\ restored /= minfo

\* a round trip of a snapshot whose node "/a" lost its list of topics
C37_WitnessInconsistent ==
  /\ restored /= NoObject
  /\ ~Consistent(minfo)
  /\ ~__eq__(restored, minfo)

C38_WitnessLocal ==
  /\ endpoint /= NoObject
  /\ endpoint.__masteruri = RemoteMasterUri
  /\ endpoint.__org_masteruri = RemoteMasterUri
  /\ endpoint.__uri = "rosrpc://remote:50001"
  /\ endpoint.__local

\* C39: from an empty cache, after every sequence of addParamCache and
\* removeParamCache calls, the list of each key has no value twice, has at its
\* head the value added last among those not removed since, holds at most
\* HISTORY_LENGTH values and is not empty
C39_CacheWellFormed ==
  \A key \in DOMAIN paramCache :
    /\ NoDuplicates(paramCache[key])
    /\ paramCache[key] /= <<>>
    /\ Len(paramCache[key]) <= HISTORY_LENGTH
    /\ Recent(paramRecent, key) /= <<>>
    /\ paramCache[key][1] = Recent(paramRecent, key)[1]

\* the list of "/p" is full and has lost its oldest value, the list of "/q"
\* holds the value unicode() makes of None
C39_Witness ==
  /\ DOMAIN paramCache = {"/p", "/q"}
  /\ Len(paramCache["/p"]) = HISTORY_LENGTH - 1
  /\ Len(Recent(paramRecent, "/p")) > Len(paramCache["/p"])
  /\ paramCache["/q"] = <<"None">>

\* the step that ends a pass by the except branch of lines 364-368
PassEndsBadly == pc = "fetch" /\ passResult' \in {"fetch", "lost", "answer_lost"}

\* a step of update() or setOwnMasterState() that asks for a pass
RequestRecorded ==
  /\ pc /= "fetch"
  /\ caller' = NoCall
  /\ _ts_last_update_request' = 0

SynctsChanges == masterInfo'.syncts /= masterInfo.syncts

C15_UnregistersFirst ==
  \A i, j \in 1..Len(handler) :
    i < j => ~(IsRegister(handler[i]) /\ IsUnregister(handler[j]))

\* a pass that registers a publisher and unregisters a subscriber
C15_Witness ==
  /\ passResult = "ok"
  /\ Issued("pub") /= {}
  /\ Issued("usub") /= {}

\* C16: the mirrored lists are the registrations of this session the local
\* master holds
C16_MirroredIsRegistered == MirroredKeys = registry

\* the multicall of a pass returned with an item answered with a code other
\* than 1, and the lists are not what the local master holds
C16_Witness ==
  /\ passResult = "ok"
  /\ failedItems /= {}
  /\ MirroredKeys /= registry

-----------------------------------------------------------------------------
(* Congestion avoidance                                                    *)

\* the worker goes on to the fetch of line 237 for calls of update() that no
\* fetch has followed yet
FetchStartsForBurst == pc /= "fetch" /\ pc' = "fetch" /\ sinceFirstCall /= NoTime

\* C6: the fetch of the pass for a burst of update() calls starts no earlier
\* than 1.1 s after the last call of the burst
C6_QuietBeforeFetch == [][FetchStartsForBurst => sinceLastCall >= Quiet]_vars

\* C7: the fetch of the pass for a burst of update() calls starts no later
\* than 5 s after the first call of the burst
C7_FetchWithinCeiling == [][FetchStartsForBurst => sinceFirstCall <= Ceiling]_vars

-----------------------------------------------------------------------------
(* Teardown and stop                                                       *)

\* C4: once a stop() has returned, the worker leaves its loop and runs the
\* teardown
C4_StopLeadsToTeardown == stopReturned ~> (pc = "done")

\* stop() has returned after the worker has read the stop flag at line 211,
\* and the worker is in wait()
C4_Witness == stopReturned /\ stop_flag /\ pc = "waiting" /\ caller = NoCall

Count(seq, x) == Cardinality({i \in 1..Len(seq) : seq[i] = x})

\* the calls of the teardown hold one call of this kind for every item of the list
OneCallEach(kind, list) ==
  \A i \in 1..Len(list) :
    Count(teardownCalls, [kind |-> kind, item |-> list[i]]) = Count(list, list[i])

\* C3: when the thread has ended, the teardown multicall held one unregister
\* call for every item of the three mirrored lists, and nothing else
C3_TeardownUnregistersMirrored ==
  pc = "done" =>
    /\ OneCallEach("upub", publisher)
    /\ OneCallEach("usub", subscriber)
    /\ OneCallEach("usrv", services)
    /\ Len(teardownCalls) = Len(publisher) + Len(subscriber) + Len(services)

C3_Witness ==
  /\ pc = "done"
  /\ stopReturned
  /\ publisher /= <<>>
  /\ subscriber /= <<>>
  /\ services /= <<>>

\* C5: once a stop() has returned the worker starts no fetch and sends no
\* multicall of a pass; all it sends is the multicall of the teardown
C5_NoNewWorkAfterStop == afterStop \subseteq {"teardown"}

C5_Witness ==
  /\ pc = "done"
  /\ afterStop = {"teardown"}
  /\ teardownCalls /= <<>>

====
